---- MODULE Spec2Model ----
(***************************************************************************)
(* State-machine model of the crosspost proxy's authorization and          *)
(* credential-lifecycle engine and of its multi-target orchestration:      *)
(*   - BasePostController.processMultipleTargets / createMultiStatusResponse*)
(*   - NearAuthService (authorization records, token references, index,    *)
(*     token storage facade)                                               *)
(*   - TwitterAuth.refreshToken and TwitterClient.getClientForUser         *)
(*   - the AuthController endpoints that create and remove links           *)
(***************************************************************************)
EXTENDS Integers, Sequences, FiniteSets, TLC

(***************************************************************************)
(* Bounds                                                                  *)
(***************************************************************************)
NumPrincipals == 2
NumUsers == 2
MaxTargets == 3
NumCallers == 2
MaxClock == 2
MaxIssued == 2
MaxCalls == 5
MaxRemaining == 2
\* 7200 * 1000 ms, the lifetime onTokenUpdate gives a refreshed token
TwoHours == 2

Principals == 1..NumPrincipals
\* platform user ids are strings of another shape than NEAR account ids
UserIds == (NumPrincipals + 1)..(NumPrincipals + NumUsers)
Platforms == {"twitter"}
Accounts == [platform : Platforms, userId : UserIds]

Null == [null |-> TRUE]
Callers == 1..NumCallers

VARIABLES
  \* ----- shared stores -----
  authRec,        \* nearAuthKvStore key [signerId]: authorization record or Null
  tokenRefs,      \* nearAuthKvStore keys ['token', signerId, platform, userId]
  index,          \* nearAuthKvStore key ['index', signerId]: array of accounts
  \* ----- one processMultipleTargets call -----
  signer,         \* signerId of the request
  targets,        \* request.targets
  i,              \* loop variable (1-based)
  pc,             \* position inside the loop body
  successResults,
  errorDetails,
  trace,          \* calls made so far: <<kind, target position>>
  statusCode,     \* status set by createMultiStatusResponse, 0 before
  \* ----- credentials -----
  bundles,        \* tokenStorage: account -> bundle or Null
  now,            \* Date.now(), in units of one hour
  platRT,         \* platform side: the refresh token it accepts for an account, 0 none
  issued,         \* platform side: number of the last token it issued
  \* ----- concurrent credential requests -----
  cpc,            \* position of each request
  cop,            \* what the request runs: getTokens, refreshToken, getClient
  cacct,          \* the account it is about
  ctok,           \* the bundle it read from tokenStorage
  cresp,          \* the platform's answer to its refresh call
  cres,           \* what it returned or threw
  \* ----- authorization and linking endpoints -----
  authStates,     \* TwitterAuth kv keys ['auth', state]: signerId of each pending state
  lastCall,       \* per principal: the last authorize/unauthorize call and its time
  everAuthorized, \* per principal: authorizeNearAccount has been called for it
  linkRejected,   \* per principal: a link-creating request of it was rejected
  calls,          \* number of endpoint calls served so far
  teardown,       \* the report of the unauthorize flow just served, else Null
  revoked,        \* the request and answer of the revoke call just served, else Null
  \* ----- concurrent NearAuthService calls -----
  wpc,            \* position of each call
  wop,            \* link, unlink, authorize or unauthorize
  wsigner,        \* the signerId it is for
  wacct,          \* the account it is about
  wread,          \* the index array it read
  wres,           \* what it returned
  \* ----- one canPerformAction call -----
  rin,            \* what the platform rate-limit implementation does
  rans            \* "pending", then "true" or "false"

storeVars == <<authRec, tokenRefs, index>>
batchVars == <<signer, targets, i, pc, successResults, errorDetails, trace, statusCode>>
credVars == <<bundles, now, platRT, issued>>
callVars == <<cpc, cop, cacct, ctok, cresp, cres>>
authVars == <<authStates, lastCall, everAuthorized, linkRejected, calls>>
tearVars == <<teardown, revoked>>
workVars == <<wpc, wop, wsigner, wacct, wread, wres>>
rateVars == <<rin, rans>>
sideVars == <<workVars, rateVars>>
vars == <<storeVars, batchVars, credVars, callVars, authVars, tearVars, sideVars>>

\* no NearAuthService call and no canPerformAction call is under way
SideIdle ==
  /\ wpc = [w \in Callers |-> "idle"]
  /\ wop = [w \in Callers |-> "none"]
  /\ wsigner = [w \in Callers |-> 1]
  /\ wacct = [w \in Callers |-> CHOOSE a \in Accounts : TRUE]
  /\ wread = [w \in Callers |-> Null]
  /\ wres = [w \in Callers |-> "none"]
  /\ rin = Null
  /\ rans = "pending"

(***************************************************************************)
(* Helpers                                                                 *)
(***************************************************************************)
RECURSIVE SetToSeq(_)
SetToSeq(S) ==
  IF S = {} THEN <<>>
  ELSE LET x == CHOOSE y \in S : \A z \in S : y.userId <= z.userId
       IN <<x>> \o SetToSeq(S \ {x})

SeqsUpTo(S, n) == UNION {[1..k -> S] : k \in 0..n}

(***************************************************************************)
(* NearAuthService: token references                                       *)
(***************************************************************************)
\* getToken: the stored reference, null when absent or when the read throws
getToken(refs, signerId, acct, kvFails) ==
  IF kvFails THEN Null
  ELSE IF <<signerId, acct>> \in refs THEN acct ELSE Null

\* an access check that forgets whose link it is looking for
hasAccess_anySigner(refs, signerId, acct, kvFails) ==
  \E p \in Principals : getToken(refs, p, acct, kvFails) # Null

hasAccess(refs, signerId, acct, kvFails) ==
  getToken(refs, signerId, acct, kvFails) # Null

(***************************************************************************)
(* Error details                                                           *)
(***************************************************************************)
createErrorDetail(code, recoverable, acct, pos) ==
  [errorCode |-> code, recoverable |-> recoverable,
   platform |-> acct.platform, userId |-> acct.userId, pos |-> pos]

createSuccessDetail(acct, pos) ==
  [platform |-> acct.platform, userId |-> acct.userId, pos |-> pos]

\* errors an action callback can throw
ThrownPlatformErrors ==
  { [cls |-> "PlatformError", code |-> "RATE_LIMITED", recoverable |-> TRUE],
    [cls |-> "PlatformError", code |-> "UNAUTHORIZED", recoverable |-> FALSE] }
GenericError == [cls |-> "Error", code |-> "none", recoverable |-> FALSE]
\* ActivityTrackingService.trackPost, which the callbacks of the controllers
\* await after the platform call has returned: its catch throws
\* PlatformError('Failed to track post activity', INTERNAL_ERROR, false)
TrackPostError == [cls |-> "PlatformError", code |-> "INTERNAL_ERROR", recoverable |-> FALSE]
Thrown == ThrownPlatformErrors \cup {GenericError, TrackPostError}
ProcessorOutcomes == {[cls |-> "ok", code |-> "none", recoverable |-> FALSE]} \cup Thrown

(***************************************************************************)
(* RateLimitService.canPerformAction                                       *)
(* A query q describes what the platform rate-limit implementation does:   *)
(*   q.kind = "unsupported"  getPlatformRateLimit throws                   *)
(*            "unmapped"     getEndpointForAction returns nothing          *)
(*            "throws"       getRateLimitStatus throws                     *)
(*            "null"         getRateLimitStatus returns null               *)
(*            "status"       a window with q.remaining and q.resetPassed   *)
(***************************************************************************)
RateQueries ==
  [kind : {"unsupported", "unmapped", "throws", "null"}, remaining : {0}, resetPassed : {FALSE}]
  \cup [kind : {"status"}, remaining : {0, 1}, resetPassed : BOOLEAN]

\* TwitterApiRateLimitPlugin: obsolete when the reset time has passed
isRateLimitObsolete(q) ==
  IF q.kind # "status" THEN TRUE ELSE q.resetPassed

\* a test that looks at the remaining calls only
isRateLimited_ignoreReset(q) ==
  IF q.kind # "status" THEN FALSE
  ELSE q.remaining = 0

\* TwitterClient.isRateLimited -> plugin.hasHitRateLimit
isRateLimited(q) ==
  IF q.kind # "status" THEN FALSE
  ELSE (~isRateLimitObsolete(q)) /\ q.remaining = 0

\* a gate that refuses when it cannot find out
canPerformAction_failClosed(q) ==
  CASE q.kind = "unsupported" -> FALSE
    [] q.kind = "unmapped" -> FALSE
    [] q.kind = "throws" -> FALSE
    [] q.kind = "null" -> FALSE
    [] OTHER -> ~isRateLimited(q)

canPerformAction(q) ==
  CASE q.kind = "unsupported" -> TRUE      \* caught: assume it's ok
    [] q.kind = "unmapped" -> TRUE         \* no endpoint info: assume it's ok
    [] q.kind = "throws" -> TRUE           \* caught: assume it's ok
    [] OTHER -> ~isRateLimited(q)

(***************************************************************************)
(* BasePostController                                                      *)
(***************************************************************************)
\* verifyAccess: {success, errorDetail}
\* an access check that files its refusals as plain platform errors
verifyAccess_platformError(refs, signerId, acct, pos, kvFails) ==
  IF hasAccess(refs, signerId, acct, kvFails)
  THEN [success |-> TRUE, errorDetail |-> Null]
  ELSE [success |-> FALSE,
        errorDetail |-> createErrorDetail("PLATFORM_ERROR", TRUE, acct, pos)]

verifyAccess(refs, signerId, acct, pos, kvFails) ==
  IF hasAccess(refs, signerId, acct, kvFails)
  THEN [success |-> TRUE, errorDetail |-> Null]
  ELSE [success |-> FALSE,
        errorDetail |-> createErrorDetail("UNAUTHORIZED", TRUE, acct, pos)]

\* a rate check that lets every target through
checkRateLimits_pass(acct, pos, q) == [success |-> TRUE, errorDetail |-> Null]

\* checkRateLimits: {success, errorDetail}
checkRateLimits(acct, pos, q) ==
  IF canPerformAction(q)
  THEN [success |-> TRUE, errorDetail |-> Null]
  ELSE [success |-> FALSE,
        errorDetail |-> createErrorDetail("RATE_LIMITED", TRUE, acct, pos)]

\* a catch block that files every throw as an unclassified one
caughtErrorDetail_generic(e, acct, pos) ==
  createErrorDetail("PLATFORM_ERROR", FALSE, acct, pos)

\* the catch block of the loop body
caughtErrorDetail(e, acct, pos) ==
  createErrorDetail(IF e.cls = "PlatformError" THEN e.code ELSE "PLATFORM_ERROR",
                    IF e.cls = "PlatformError" THEN e.recoverable ELSE FALSE,
                    acct, pos)

\* error-handling.utils getStatusCodeForError
getStatusCodeForError(code) ==
  CASE code = "UNAUTHORIZED" -> 401
    [] code = "RATE_LIMITED" -> 429
    [] code = "PLATFORM_ERROR" -> 502
    [] code = "INTERNAL_ERROR" -> 500
    [] OTHER -> 500

\* a response that takes its code from the last error
createMultiStatusResponse_lastError(succ, errs) ==
  IF Len(succ) = 0 /\ Len(errs) > 0 THEN getStatusCodeForError(errs[Len(errs)].errorCode)
  ELSE IF Len(succ) > 0 /\ Len(errs) > 0 THEN 207
  ELSE 200

\* createMultiStatusResponse: the status code of the response
\* a response that is multi-status whenever something succeeded
createMultiStatusResponse_partial(succ, errs) ==
  IF Len(succ) = 0 /\ Len(errs) > 0 THEN getStatusCodeForError(errs[1].errorCode)
  ELSE IF Len(succ) > 0 THEN 207
  ELSE 200

createMultiStatusResponse(succ, errs) ==
  IF Len(succ) = 0 /\ Len(errs) > 0 THEN getStatusCodeForError(errs[1].errorCode)
  ELSE IF Len(succ) > 0 /\ Len(errs) > 0 THEN 207
  ELSE 200

\* the for statement: next iteration, or leave the loop
NextIteration(k) ==
  /\ i' = k + 1
  /\ pc' = IF k + 1 <= Len(targets) THEN "access" ELSE "respond"

\* a failed access check that ends the batch instead of continuing
BatchVerifyAccess_abort ==
  /\ pc = "access"
  /\ \E kvFails \in BOOLEAN :
       LET r == verifyAccess(tokenRefs, signer, targets[i], i, kvFails) IN
       /\ trace' = Append(trace, <<"access", i>>)
       /\ IF ~r.success /\ r.errorDetail # Null
          THEN /\ errorDetails' = Append(errorDetails, r.errorDetail)
               /\ i' = Len(targets) + 1
               /\ pc' = "respond"
          ELSE /\ pc' = "rate"
               /\ UNCHANGED <<errorDetails, i>>
  /\ UNCHANGED <<sideVars, tearVars, authVars, storeVars, credVars, callVars, signer, targets, successResults, statusCode>>

\* lines 136-141: access check of targets[i]
BatchVerifyAccess ==
  /\ pc = "access"
  /\ \E kvFails \in BOOLEAN :
       LET r == verifyAccess(tokenRefs, signer, targets[i], i, kvFails) IN
       /\ trace' = Append(trace, <<"access", i>>)
       /\ IF ~r.success /\ r.errorDetail # Null
          THEN /\ errorDetails' = Append(errorDetails, r.errorDetail)
               /\ NextIteration(i)
          ELSE /\ pc' = "rate"
               /\ UNCHANGED <<errorDetails, i>>
  /\ UNCHANGED <<sideVars, tearVars, authVars, storeVars, credVars, callVars, signer, targets, successResults, statusCode>>

\* lines 143-148: rate-limit check of targets[i]; the trace gets the check
\* and, when rateLimitService.canPerformAction answered false, the refusal
BatchCheckRateLimits ==
  /\ pc = "rate"
  /\ \E q \in RateQueries :
       LET r == checkRateLimits(targets[i], i, q) IN
       /\ trace' = trace \o (IF canPerformAction(q) THEN << <<"rate", i>> >>
                              ELSE << <<"rate", i>>, <<"refused", i>> >>)
       /\ IF ~r.success /\ r.errorDetail # Null
          THEN /\ errorDetails' = Append(errorDetails, r.errorDetail)
               /\ NextIteration(i)
          ELSE /\ pc' = "exec"
               /\ UNCHANGED <<errorDetails, i>>
  /\ UNCHANGED <<sideVars, tearVars, authVars, storeVars, credVars, callVars, signer, targets, successResults, statusCode>>

\* a processor step that puts its result in front of the earlier ones
BatchProcess_unshift ==
  /\ pc = "exec"
  /\ \E o \in ProcessorOutcomes :
       IF o.cls = "ok"
       THEN /\ trace' = trace \o << <<"invoke", i>>, <<"performed", i>>, <<"returned", i>> >>
            /\ successResults' = <<createSuccessDetail(targets[i], i)>> \o successResults
            /\ IF i < Len(targets)
               THEN pc' = "delay" /\ i' = i
               ELSE NextIteration(i)
            /\ UNCHANGED errorDetails
       ELSE /\ trace' = trace \o (IF o = TrackPostError
                              THEN << <<"invoke", i>>, <<"performed", i>>,
                                      <<"threw", i>>, <<"error", i, o>> >>
                              ELSE << <<"invoke", i>>, <<"threw", i>>, <<"error", i, o>> >>)
            /\ errorDetails' = Append(errorDetails, caughtErrorDetail(o, targets[i], i))
            /\ NextIteration(i)
            /\ UNCHANGED successResults
  /\ UNCHANGED <<sideVars, tearVars, authVars, storeVars, credVars, callVars, signer, targets, statusCode>>

\* lines 150-171: the processor callback on targets[i], its result or its
\* throw; the trace keeps what was thrown and whether the platform call of
\* the callback had been made (it has when the callback returns, and when
\* the tracking that follows it throws)
BatchProcess ==
  /\ pc = "exec"
  /\ \E o \in ProcessorOutcomes :
       IF o.cls = "ok"
       THEN /\ trace' = trace \o << <<"invoke", i>>, <<"performed", i>>, <<"returned", i>> >>
            /\ successResults' = Append(successResults, createSuccessDetail(targets[i], i))
            /\ IF i < Len(targets)
               THEN pc' = "delay" /\ i' = i
               ELSE NextIteration(i)
            /\ UNCHANGED errorDetails
       ELSE /\ trace' = trace \o (IF o = TrackPostError
                              THEN << <<"invoke", i>>, <<"performed", i>>,
                                      <<"threw", i>>, <<"error", i, o>> >>
                              ELSE << <<"invoke", i>>, <<"threw", i>>, <<"error", i, o>> >>)
            /\ errorDetails' = Append(errorDetails, caughtErrorDetail(o, targets[i], i))
            /\ NextIteration(i)
            /\ UNCHANGED successResults
  /\ UNCHANGED <<sideVars, tearVars, authVars, storeVars, credVars, callVars, signer, targets, statusCode>>

\* lines 154-157: the pacing delay after a processed non-final target
BatchDelay ==
  /\ pc = "delay"
  /\ trace' = Append(trace, <<"delay", i>>)
  /\ NextIteration(i)
  /\ UNCHANGED <<sideVars, tearVars, authVars, storeVars, credVars, callVars, signer, targets, successResults, errorDetails, statusCode>>

\* the controller's handle(): createMultiStatusResponse on the two lists
BatchRespond ==
  /\ pc = "respond"
  /\ statusCode' = createMultiStatusResponse(successResults, errorDetails)
  /\ pc' = "done"
  /\ UNCHANGED <<sideVars, tearVars, authVars, storeVars, credVars, callVars, signer, targets, i, successResults, errorDetails, trace>>

\* a request of principal 1 (principals are interchangeable), its targets, and
\* the links stored when it starts: each account is linked to the signer or to
\* the other principals
BatchInit ==
  /\ signer = 1
  /\ targets \in SeqsUpTo(Accounts, MaxTargets)
  /\ \E L \in SUBSET Accounts :
       /\ tokenRefs = ({signer} \X L) \cup ((Principals \ {signer}) \X (Accounts \ L))
       /\ index = [p \in Principals |->
                     SetToSeq({a \in Accounts : <<p, a>> \in tokenRefs})]
  /\ authRec = [p \in Principals |-> [authorized |-> TRUE, timestamp |-> 0]]
  /\ i = 1
  /\ pc = IF Len(targets) >= 1 THEN "access" ELSE "respond"
  /\ successResults = <<>>
  /\ errorDetails = <<>>
  /\ trace = <<>>
  /\ statusCode = 0
  /\ bundles = [a \in Accounts |-> Null]
  /\ now = 0
  /\ platRT = [a \in Accounts |-> 0]
  /\ issued = 1
  /\ cpc = [c \in Callers |-> "idle"]
  /\ cop = [c \in Callers |-> "none"]
  /\ cacct = [c \in Callers |-> CHOOSE a \in Accounts : TRUE]
  /\ ctok = [c \in Callers |-> Null]
  /\ cresp = [c \in Callers |-> Null]
  /\ cres = [c \in Callers |-> Null]
  /\ authStates = {}
  /\ lastCall = [p \in Principals |-> [op |-> "authorize", at |-> 0]]
  /\ everAuthorized = [p \in Principals |-> TRUE]
  /\ linkRejected = [p \in Principals |-> FALSE]
  /\ calls = 0
  /\ teardown = Null
  /\ revoked = Null
  /\ SideIdle

BatchNext ==
  \/ BatchVerifyAccess
  \/ BatchCheckRateLimits
  \/ BatchProcess
  \/ BatchDelay
  \/ BatchRespond

SpecBatch == BatchInit /\ [][BatchNext]_vars

(***************************************************************************)
(* The same loop with calls that may never settle.  The loop body awaits   *)
(* authService.hasAccess, rateLimitService.canPerformAction and the        *)
(* processor; none of the awaits is raced against a timer, so a promise    *)
(* that stays pending keeps the loop at that await.                        *)
(***************************************************************************)
\* lines 137, 144, 151: the awaited call of targets[i] does not settle
BatchAwaitPending ==
  /\ pc \in {"access", "rate", "exec"}
  /\ trace' = Append(trace, <<"pending", i>>)
  /\ pc' = "pending"
  /\ UNCHANGED <<sideVars, tearVars, authVars, storeVars, credVars, callVars, signer, targets, i,
                 successResults, errorDetails, statusCode>>

AwaitNext ==
  \/ BatchVerifyAccess
  \/ BatchCheckRateLimits
  \/ BatchProcess
  \/ BatchDelay
  \/ BatchRespond
  \/ BatchAwaitPending

\* the event loop runs every continuation that is ready
SpecAwait == BatchInit /\ [][AwaitNext]_vars /\ WF_vars(AwaitNext)

(***************************************************************************)
(* Credential bundles and the platform's refresh endpoint                  *)
(* A bundle is {accessToken, refreshToken, expiresAt}; refreshToken 0 is   *)
(* the empty string and expiresAt 0 is an absent expiry (both falsy).      *)
(***************************************************************************)
Bundle(at, rt, exp) == [accessToken |-> at, refreshToken |-> rt, expiresAt |-> exp]

\* tokens.expiresAt && tokens.expiresAt < Date.now()
\* a test that takes a bundle without expiresAt for an expired one
Expired_absent(b, t) == b.expiresAt < t

Expired(b, t) == b.expiresAt # 0 /\ b.expiresAt < t

\* errors of refreshOAuth2Token: data.error, whether data.error_description
\* includes 'invalid', and whether status is 400 with code 'invalid_grant'
RefreshErrors ==
  { [dataError |-> "invalid_request", descInvalid |-> TRUE, grant400 |-> FALSE],
    [dataError |-> "invalid_grant", descInvalid |-> FALSE, grant400 |-> TRUE],
    [dataError |-> "none", descInvalid |-> FALSE, grant400 |-> FALSE] }

\* TwitterAuth.refreshToken: the errors after which it deletes the tokens
isInvalidGrantAuth(e) ==
  e.dataError = "invalid_request" \/ e.grant400

\* TwitterClient onTokenRefreshError: the errors after which it deletes the tokens
isInvalidGrantClient(e) ==
  e.dataError = "invalid_request" \/ e.descInvalid \/ e.grant400

OkResponse(at, rt) == [ok |-> TRUE, accessToken |-> at, refreshToken |-> rt,
                       expiresIn |-> TwoHours, error |-> Null]
ErrResponse(e) == [ok |-> FALSE, accessToken |-> 0, refreshToken |-> 0,
                   expiresIn |-> 0, error |-> e]

\* what a request returned or threw
Returned(b) == [kind |-> "ok", bundle |-> b, error |-> Null]
Threw(e) == [kind |-> "error", bundle |-> Null, error |-> e]

NotFoundError == [cls |-> "Error", code |-> "none", status |-> 0, msg |-> "Tokens not found"]
\* ApiError('Tokens expired and no refresh token available', UNAUTHORIZED, 401)
TokensExpiredError ==
  [cls |-> "ApiError", code |-> "UNAUTHORIZED", status |-> 401, msg |-> "Tokens expired and no refresh token available"]
FailedToRefreshError ==
  [cls |-> "Error", code |-> "none", status |-> 0, msg |-> "Failed to refresh token"]
AuthExpiredError ==
  [cls |-> "Error", code |-> "none", status |-> 0, msg |-> "User authentication expired. Please reconnect your Twitter account."]
RefreshFailedError ==
  [cls |-> "Error", code |-> "none", status |-> 0, msg |-> "Token refresh failed"]

(***************************************************************************)
(* NearAuthService: connected-accounts index and the token facade          *)
(***************************************************************************)
\* listConnectedAccounts: the array stored under ['index', id], [] when absent
listConnectedAccounts(idx, id) ==
  IF id \in DOMAIN idx THEN idx[id] ELSE <<>>

Range(f) == {f[x] : x \in DOMAIN f}

\* deleteTokens, after tokenStorage.deleteTokens: the token references it
\* removes are those of the accounts listed under the platform user id
deleteTokensRefs(refs, idx, acct) ==
  IF acct \in Range(listConnectedAccounts(idx, acct.userId))
  THEN refs \ {<<acct.userId, acct>>}
  ELSE refs

\* saveTokens, after tokenStorage.saveTokens: the references it rewrites
saveTokensRefs(refs, idx, acct) ==
  IF acct \in Range(listConnectedAccounts(idx, acct.userId))
  THEN refs \cup {<<acct.userId, acct>>}
  ELSE refs

(***************************************************************************)
(* Concurrent credential requests                                          *)
(***************************************************************************)
Ops == {"getTokens", "refreshToken", "getClient"}

\* the request ends: its locals go out of scope
Finish(c, r) ==
  /\ cres' = [cres EXCEPT ![c] = r]
  /\ cpc' = [cpc EXCEPT ![c] = "done"]
  /\ ctok' = [ctok EXCEPT ![c] = Null]
  /\ cresp' = [cresp EXCEPT ![c] = Null]

\* a request arrives (requests are numbered in their order of arrival)
Start(c) ==
  /\ cpc[c] = "idle"
  /\ \A d \in Callers : d < c => cpc[d] # "idle"
  /\ \E op \in Ops, a \in Accounts :
       /\ cop' = [cop EXCEPT ![c] = op]
       /\ cacct' = [cacct EXCEPT ![c] = a]
  /\ cpc' = [cpc EXCEPT ![c] = "read"]
  /\ ctok' = [ctok EXCEPT ![c] = Null]
  /\ cresp' = [cresp EXCEPT ![c] = Null]
  /\ cres' = [cres EXCEPT ![c] = Null]
  /\ UNCHANGED <<sideVars, tearVars, authVars, storeVars, batchVars, credVars>>

\* the request goes on to its next step holding the tokens it read
Goto(c, step, tokens) ==
  /\ cpc' = [cpc EXCEPT ![c] = step]
  /\ ctok' = [ctok EXCEPT ![c] = tokens]
  /\ UNCHANGED <<cresp, cres>>

\* a getTokens that hands out whatever is stored, expired or not
GetTokensRead_serveExpired(c) ==
  /\ cpc[c] = "read"
  /\ cop[c] \in {"getTokens", "getClient"}
  /\ LET tokens == bundles[cacct[c]] IN
     IF tokens = Null
     THEN Finish(c, Threw(NotFoundError))
     ELSE IF cop[c] = "getTokens"
     THEN Finish(c, Returned(tokens))
     ELSE Goto(c, "apicall", tokens)
  /\ UNCHANGED <<sideVars, tearVars, authVars, storeVars, batchVars, credVars, cop, cacct>>

\* NearAuthService.getTokens up to its return or its call of deleteTokens
\* (also the first statement of TwitterClient.getClientForUser)
GetTokensRead(c) ==
  /\ cpc[c] = "read"
  /\ cop[c] \in {"getTokens", "getClient"}
  /\ LET tokens == bundles[cacct[c]] IN
     IF tokens = Null
     THEN Finish(c, Threw(NotFoundError))
     ELSE IF Expired(tokens, now) /\ tokens.refreshToken = 0
     THEN Goto(c, "delete", tokens)
     ELSE IF cop[c] = "getTokens"
     THEN Finish(c, Returned(tokens))
     ELSE Goto(c, "apicall", tokens)
  /\ UNCHANGED <<sideVars, tearVars, authVars, storeVars, batchVars, credVars, cop, cacct>>

\* NearAuthService.getTokens: deleteTokens, then the 401 ApiError
GetTokensDelete(c) ==
  /\ cpc[c] = "delete"
  /\ bundles' = [bundles EXCEPT ![cacct[c]] = Null]
  /\ tokenRefs' = deleteTokensRefs(tokenRefs, index, cacct[c])
  /\ Finish(c, Threw(TokensExpiredError))
  /\ UNCHANGED <<sideVars, tearVars, authVars, authRec, index, batchVars, now, platRT, issued, cop, cacct>>

\* TwitterAuth.refreshToken up to its call of refreshOAuth2Token
RefreshTokenRead(c) ==
  /\ cpc[c] = "read"
  /\ cop[c] = "refreshToken"
  /\ LET tokens == bundles[cacct[c]] IN
     IF tokens = Null
     THEN Finish(c, Threw(FailedToRefreshError))
     ELSE IF tokens.refreshToken = 0
     THEN Finish(c, Threw(FailedToRefreshError))
     ELSE Goto(c, "inflight", tokens)
  /\ UNCHANGED <<sideVars, tearVars, authVars, storeVars, batchVars, credVars, cop, cacct>>

\* the client built by getClientForUser is used: an unexpired access token is
\* accepted, an expired one makes the auto-refresher plugin call the platform
ClientApiCall(c) ==
  /\ cpc[c] = "apicall"
  /\ IF Expired(ctok[c], now)
     THEN Goto(c, "inflight", ctok[c])
     ELSE Finish(c, Returned(ctok[c]))
  /\ UNCHANGED <<sideVars, tearVars, authVars, storeVars, batchVars, credVars, cop, cacct>>

\* the platform answers refreshOAuth2Token(ctok.refreshToken): with new tokens
\* (rotating the refresh token or not) when the refresh token is the one it
\* accepts, or with an error
PlatformRefresh(c) ==
  /\ cpc[c] = "inflight"
  /\ \/ /\ ctok[c].refreshToken # 0
        /\ ctok[c].refreshToken = platRT[cacct[c]]
        /\ issued < MaxIssued + 1
        /\ issued' = issued + 1
        /\ \E rotate \in BOOLEAN :
             IF rotate
             THEN /\ platRT' = [platRT EXCEPT ![cacct[c]] = issued']
                  /\ cresp' = [cresp EXCEPT ![c] = OkResponse(issued', issued')]
             ELSE /\ platRT' = platRT
                  /\ cresp' = [cresp EXCEPT ![c] = OkResponse(issued', 0)]
     \/ /\ \E e \in RefreshErrors : cresp' = [cresp EXCEPT ![c] = ErrResponse(e)]
        /\ UNCHANGED <<platRT, issued>>
  /\ cpc' = [cpc EXCEPT ![c] = "responded"]
  /\ UNCHANGED <<sideVars, tearVars, authVars, storeVars, batchVars, bundles, now, cop, cacct, ctok, cres>>

\* a refreshToken that returns the new tokens without saving them
RefreshTokenFinish_noSave(c) ==
  /\ cpc[c] = "responded"
  /\ cop[c] = "refreshToken"
  /\ LET r == cresp[c]
         newTokens == Bundle(r.accessToken,
                             IF r.refreshToken # 0 THEN r.refreshToken
                             ELSE ctok[c].refreshToken,
                             now + r.expiresIn)
     IN IF r.ok
        THEN /\ bundles' = bundles
             /\ Finish(c, Returned(newTokens))
        ELSE IF isInvalidGrantAuth(r.error)
        THEN /\ bundles' = [bundles EXCEPT ![cacct[c]] = Null]
             /\ Finish(c, Threw(FailedToRefreshError))
        ELSE /\ bundles' = bundles
             /\ Finish(c, Threw(FailedToRefreshError))
  /\ UNCHANGED <<sideVars, tearVars, authVars, storeVars, batchVars, now, platRT, issued, cop, cacct>>

\* TwitterAuth.refreshToken after the platform's answer: save and return the
\* new tokens, or delete the tokens on an invalid-grant error, and throw
RefreshTokenFinish(c) ==
  /\ cpc[c] = "responded"
  /\ cop[c] = "refreshToken"
  /\ LET r == cresp[c]
         newTokens == Bundle(r.accessToken,
                             IF r.refreshToken # 0 THEN r.refreshToken
                             ELSE ctok[c].refreshToken,
                             now + r.expiresIn)
     IN IF r.ok
        THEN /\ bundles' = [bundles EXCEPT ![cacct[c]] = newTokens]
             /\ Finish(c, Returned(newTokens))
        ELSE IF isInvalidGrantAuth(r.error)
        THEN /\ bundles' = [bundles EXCEPT ![cacct[c]] = Null]
             /\ Finish(c, Threw(FailedToRefreshError))
        ELSE /\ bundles' = bundles
             /\ Finish(c, Threw(FailedToRefreshError))
  /\ UNCHANGED <<sideVars, tearVars, authVars, storeVars, batchVars, now, platRT, issued, cop, cacct>>

\* callbacks that delete the tokens after every refresh error
ClientRefreshFinish_deleteOnError(c) ==
  /\ cpc[c] = "responded"
  /\ cop[c] = "getClient"
  /\ LET r == cresp[c]
         newToken == Bundle(r.accessToken, r.refreshToken, now + TwoHours)
     IN IF r.ok
        THEN /\ bundles' = [bundles EXCEPT ![cacct[c]] = newToken]
             /\ tokenRefs' = saveTokensRefs(tokenRefs, index, cacct[c])
             /\ Finish(c, Returned(newToken))
        ELSE /\ bundles' = [bundles EXCEPT ![cacct[c]] = Null]
             /\ tokenRefs' = deleteTokensRefs(tokenRefs, index, cacct[c])
             /\ Finish(c, Threw(IF isInvalidGrantClient(r.error) THEN AuthExpiredError
                                ELSE RefreshFailedError))
  /\ UNCHANGED <<sideVars, tearVars, authVars, authRec, index, batchVars, now, platRT, issued, cop, cacct>>

\* the plugin's callbacks in getClientForUser: onTokenUpdate saves the new
\* tokens, onTokenRefreshError deletes them on an invalid-grant error and throws
ClientRefreshFinish(c) ==
  /\ cpc[c] = "responded"
  /\ cop[c] = "getClient"
  /\ LET r == cresp[c]
         newToken == Bundle(r.accessToken, r.refreshToken, now + TwoHours)
     IN IF r.ok
        THEN /\ bundles' = [bundles EXCEPT ![cacct[c]] = newToken]
             /\ tokenRefs' = saveTokensRefs(tokenRefs, index, cacct[c])
             /\ Finish(c, Returned(newToken))
        ELSE IF isInvalidGrantClient(r.error)
        THEN /\ bundles' = [bundles EXCEPT ![cacct[c]] = Null]
             /\ tokenRefs' = deleteTokensRefs(tokenRefs, index, cacct[c])
             /\ Finish(c, Threw(AuthExpiredError))
        ELSE /\ bundles' = bundles
             /\ tokenRefs' = tokenRefs
             /\ Finish(c, Threw(RefreshFailedError))
  /\ UNCHANGED <<sideVars, tearVars, authVars, authRec, index, batchVars, now, platRT, issued, cop, cacct>>

\* time passes
Tick ==
  /\ now < MaxClock
  /\ now' = now + 1
  /\ UNCHANGED <<sideVars, tearVars, authVars, storeVars, batchVars, bundles, platRT, issued, callVars>>

\* one account's bundle as the OAuth callback stored it (with or without a
\* refresh token), linked to principal 1, or no bundle at all
CredInit ==
  /\ \E a \in Accounts, b \in {Null, Bundle(1, 1, 1), Bundle(1, 0, 1), Bundle(1, 0, 0)} :
       bundles = [x \in Accounts |-> IF x = a THEN b ELSE Null]
  /\ platRT = [a \in Accounts |-> IF bundles[a] = Null THEN 0 ELSE bundles[a].refreshToken]
  /\ issued = 1
  /\ now = 1
  /\ tokenRefs = {<<1, a>> : a \in {b \in Accounts : bundles[b] # Null}}
  /\ index = [p \in Principals |->
                SetToSeq({a \in Accounts : <<p, a>> \in tokenRefs})]
  /\ authRec = [p \in Principals |-> [authorized |-> TRUE, timestamp |-> 0]]
  /\ cpc = [c \in Callers |-> "idle"]
  /\ cop = [c \in Callers |-> "none"]
  /\ cacct = [c \in Callers |-> CHOOSE a \in Accounts : TRUE]
  /\ ctok = [c \in Callers |-> Null]
  /\ cresp = [c \in Callers |-> Null]
  /\ cres = [c \in Callers |-> Null]
  /\ authStates = {}
  /\ lastCall = [p \in Principals |-> [op |-> "authorize", at |-> 0]]
  /\ everAuthorized = [p \in Principals |-> TRUE]
  /\ linkRejected = [p \in Principals |-> FALSE]
  /\ calls = 0
  /\ teardown = Null
  /\ revoked = Null
  /\ SideIdle
  /\ signer = 1
  /\ targets = <<>>
  /\ i = 1
  /\ pc = "done"
  /\ successResults = <<>>
  /\ errorDetails = <<>>
  /\ trace = <<>>
  /\ statusCode = 0

CredNext ==
  \/ \E c \in Callers : Start(c)
  \/ \E c \in Callers : GetTokensRead(c)
  \/ \E c \in Callers : GetTokensDelete(c)
  \/ \E c \in Callers : RefreshTokenRead(c)
  \/ \E c \in Callers : ClientApiCall(c)
  \/ \E c \in Callers : PlatformRefresh(c)
  \/ \E c \in Callers : RefreshTokenFinish(c)
  \/ \E c \in Callers : ClientRefreshFinish(c)
  \/ Tick

SpecCred == CredInit /\ [][CredNext]_vars

(***************************************************************************)
(* NearAuthService: authorization records and links                        *)
(***************************************************************************)
\* result?.authorized === true
isNearAccountAuthorized(rec, p) ==
  rec[p] # Null /\ rec[p].authorized = TRUE

\* set([signerId], {authorized: true, timestamp})
authorizeNearAccount(rec, p, t) ==
  [rec EXCEPT ![p] = [authorized |-> TRUE, timestamp |-> t]]

\* an unauthorize that leaves the record in the store
unauthorizeNearAccount_keep(rec, p) == rec

\* get([signerId]); nothing to do when null, else delete([signerId])
unauthorizeNearAccount(rec, p) ==
  IF rec[p] = Null THEN rec ELSE [rec EXCEPT ![p] = Null]

\* a status that does not look at the connected accounts
getNearAuthorizationStatus_flag(rec, idx, p) ==
  IF ~isNearAccountAuthorized(rec, p) THEN -1 ELSE 0

\* -1 not authorized, else the number of connected accounts
getNearAuthorizationStatus(rec, idx, p) ==
  IF ~isNearAccountAuthorized(rec, p) THEN -1
  ELSE Len(listConnectedAccounts(idx, p))

\* a gate that only validates the signature
extractAndValidateNearAuth_noStatus(rec, idx, p, sigValid) == sigValid

\* validateNearAuthSignature passes and the status is not negative
extractAndValidateNearAuth(rec, idx, p, sigValid) ==
  sigValid /\ ~(getNearAuthorizationStatus(rec, idx, p) < 0)

\* the same three reads on a store whose get may throw: each catch block
\* gives the answer of "nothing there"
isNearAccountAuthorizedRead_failOpen(rec, p, kvFails) ==
  kvFails \/ isNearAccountAuthorized(rec, p)

\* get([signerId]) throws: catch, return false
isNearAccountAuthorizedRead(rec, p, kvFails) ==
  IF kvFails THEN FALSE ELSE isNearAccountAuthorized(rec, p)

\* get(['index', signerId]) throws: catch, return []
listConnectedAccountsRead(idx, p, kvFails) ==
  IF kvFails THEN <<>> ELSE listConnectedAccounts(idx, p)

\* the record read and the index read may fail separately
getNearAuthorizationStatusRead(rec, idx, p, recFails, idxFails) ==
  IF ~isNearAccountAuthorizedRead(rec, p, recFails) THEN -1
  ELSE Len(listConnectedAccountsRead(idx, p, idxFails))

addToConnectedAccountsIndex(idx, p, acct) ==
  IF acct \in Range(listConnectedAccounts(idx, p)) THEN idx
  ELSE [idx EXCEPT ![p] = Append(@, acct)]

removeFromConnectedAccountsIndex(idx, p, acct) ==
  [idx EXCEPT ![p] = SelectSeq(@, LAMBDA x : x # acct)]

\* linkAccount -> storeToken: the token key, then the index
linkAccountRefs(refs, p, acct) == refs \cup {<<p, acct>>}

\* a deleteToken that leaves the token key
unlinkAccountRefs_keep(refs, p, acct) == refs

\* unlinkAccount -> deleteToken: the token key, then the index
unlinkAccountRefs(refs, p, acct) == refs \ {<<p, acct>>}

(***************************************************************************)
(* AuthController endpoints; sigValid is the outcome of validateSignature  *)
(* for a request made in the name of principal p                           *)
(***************************************************************************)
Mark(f, p, v) == [f EXCEPT ![p] = v]

\* one more endpoint call is served
Serve ==
  /\ calls < MaxCalls
  /\ calls' = calls + 1

\* POST /auth/authorize/near
AuthorizeNear(p) ==
  /\ Serve
  /\ teardown' = Null
  /\ revoked' = Null
  /\ \E sigValid \in BOOLEAN :
       IF sigValid
       THEN /\ authRec' = authorizeNearAccount(authRec, p, now)
            /\ lastCall' = Mark(lastCall, p, [op |-> "authorize", at |-> now])
            /\ everAuthorized' = Mark(everAuthorized, p, TRUE)
       ELSE UNCHANGED <<authRec, lastCall, everAuthorized>>
  /\ UNCHANGED <<sideVars, tokenRefs, index, batchVars, credVars, callVars, authStates, linkRejected>>

\* what can go wrong while one linked account is torn down: nothing, the
\* platform's revoke call throws, or unlinkAccountFromNear throws (at its
\* first store operation, delete(['token', ...]))
TeardownModes == {"ok", "revokeFails", "unlinkFails"}

\* NearAuthService.getLinkedAccounts: the list, or [] when the read throws
getLinkedAccounts(idx, p, kvFails) == listConnectedAccountsRead(idx, p, kvFails)

\* extractAndValidateNearAuth on a store whose reads may throw
extractAndValidateNearAuthRead(rec, idx, p, sigValid, recFails, idxFails) ==
  sigValid /\ ~(getNearAuthorizationStatusRead(rec, idx, p, recFails, idxFails) < 0)

RECURSIVE unlinkAll(_, _, _, _, _)
\* the loop of unauthorizeNear over the linked accounts: k is the position in
\* the list read before the loop, st the stores and the unlinkErrors so far.
\* revokeToken swallows the platform's error and deletes the bundle; a throw
\* of unlinkAccountFromNear is caught and pushed to unlinkErrors
unlinkAll(accts, k, p, modes, st) ==
  IF k > Len(accts) THEN st
  ELSE LET a == accts[k]
           thrown == modes[a] = "unlinkFails"
       IN unlinkAll(accts, k + 1, p, modes,
            [b |-> [st.b EXCEPT ![a] = Null],
             refs |-> IF thrown THEN st.refs
                      ELSE unlinkAccountRefs(st.refs, p, a),
             idx |-> IF thrown THEN st.idx
                     ELSE removeFromConnectedAccountsIndex(st.idx, p, a),
             errs |-> IF thrown THEN st.errs \cup {a} ELSE st.errs])

\* DELETE /auth/unauthorize/near: revoke and unlink every linked account,
\* then remove the authorization; the response carries unlinkErrors
UnauthorizeNear(p) ==
  /\ Serve
  /\ \E sigValid, recFails \in BOOLEAN :
       IF \E idxFails \in BOOLEAN :
            extractAndValidateNearAuthRead(authRec, index, p, sigValid, recFails, idxFails)
       THEN \E listFails, deleteFails \in BOOLEAN :
            LET linkedAccounts == getLinkedAccounts(index, p, listFails) IN
            \E modes \in [Range(linkedAccounts) -> TeardownModes] :
              LET st == unlinkAll(linkedAccounts, 1, p, modes,
                                  [b |-> bundles, refs |-> tokenRefs, idx |-> index,
                                   errs |-> {}])
              IN /\ bundles' = st.b
                 /\ tokenRefs' = st.refs
                 /\ index' = st.idx
                 /\ authRec' = IF deleteFails THEN authRec
                               ELSE unauthorizeNearAccount(authRec, p)
                 /\ lastCall' = IF deleteFails THEN lastCall
                                ELSE Mark(lastCall, p, [op |-> "unauthorize", at |-> now])
                 /\ teardown' = [signer |-> p,
                                 status |-> IF deleteFails THEN 500 ELSE 200,
                                 accountsUnlinked |-> Len(linkedAccounts),
                                 unlinkErrors |-> st.errs]
                 /\ revoked' = Null
       ELSE /\ teardown' = Null
            /\ revoked' = Null
            /\ UNCHANGED <<bundles, tokenRefs, index, authRec, lastCall>>
  /\ UNCHANGED <<sideVars, batchVars, now, platRT, issued, callVars, authStates, everAuthorized, linkRejected>>

\* POST /auth/{platform}/login: an authorized signer gets a pending auth state
InitializeAuth(p) ==
  /\ Serve
  /\ teardown' = Null
  /\ revoked' = Null
  /\ \E sigValid \in BOOLEAN :
       IF ~sigValid THEN UNCHANGED <<authStates, linkRejected>>
       ELSE IF /\ extractAndValidateNearAuth(authRec, index, p, sigValid)
               /\ ~(getNearAuthorizationStatus(authRec, index, p) < 0)
       THEN /\ authStates' = authStates \cup {p}
            /\ UNCHANGED linkRejected
       ELSE /\ linkRejected' = Mark(linkRejected, p, TRUE)
            /\ UNCHANGED authStates
  /\ UNCHANGED <<sideVars, storeVars, batchVars, credVars, callVars, lastCall, everAuthorized>>

\* GET /auth/{platform}/callback with the state of p: the platform logs in
\* account acct; tokens are saved, the account is linked to the state's
\* signerId, the state is deleted
HandleCallback(p) ==
  /\ Serve
  /\ teardown' = Null
  /\ revoked' = Null
  /\ p \in authStates
  /\ \E acct \in Accounts, withRefresh \in BOOLEAN :
       LET tokens == Bundle(1, IF withRefresh THEN 1 ELSE 0, now + TwoHours) IN
       /\ bundles' = [bundles EXCEPT ![acct] = tokens]
       /\ platRT' = [platRT EXCEPT ![acct] = tokens.refreshToken]
       /\ tokenRefs' = linkAccountRefs(saveTokensRefs(tokenRefs, index, acct), p, acct)
       /\ index' = addToConnectedAccountsIndex(index, p, acct)
  /\ authStates' = authStates \ {p}
  /\ UNCHANGED <<sideVars, authRec, batchVars, now, issued, callVars, lastCall, everAuthorized, linkRejected>>

\* POST /auth/{platform}/refresh: TwitterAuth.refreshToken for the account,
\* then saveTokens and linkAccount for the signer
RefreshEndpoint(p) ==
  /\ Serve
  /\ teardown' = Null
  /\ revoked' = Null
  /\ \E sigValid \in BOOLEAN :
       IF ~extractAndValidateNearAuth(authRec, index, p, sigValid)
       THEN /\ linkRejected' = Mark(linkRejected, p, sigValid)
            /\ UNCHANGED <<bundles, issued, tokenRefs, index>>
       ELSE /\ UNCHANGED linkRejected
            /\ \E acct \in Accounts :
               IF bundles[acct] = Null
               THEN UNCHANGED <<bundles, issued, tokenRefs, index>>
               ELSE IF bundles[acct].refreshToken = 0
               THEN UNCHANGED <<bundles, issued, tokenRefs, index>>
               ELSE \E resp \in {"ok", "invalid", "other"} :
               IF resp = "ok" /\ bundles[acct].refreshToken = platRT[acct]
                       /\ issued < MaxIssued + 1
               THEN /\ issued' = issued + 1
                    /\ bundles' = [bundles EXCEPT ![acct] =
                                     Bundle(issued', @.refreshToken, now + TwoHours)]
                    /\ tokenRefs' = linkAccountRefs(saveTokensRefs(tokenRefs, index, acct), p, acct)
                    /\ index' = addToConnectedAccountsIndex(index, p, acct)
               ELSE IF resp = "invalid"
               THEN /\ bundles' = [bundles EXCEPT ![acct] = Null]
                    /\ UNCHANGED <<issued, tokenRefs, index>>
               ELSE UNCHANGED <<bundles, issued, tokenRefs, index>>
  /\ UNCHANGED <<sideVars, authRec, batchVars, now, platRT, callVars, authStates, lastCall, everAuthorized>>

\* DELETE /auth/{platform}/revoke: revoke the account's tokens and, when that
\* succeeded, unlink the account from the signer.  TwitterAuth.revokeToken
\* answers false when it finds no tokens, and true otherwise, also when the
\* platform's revoke call threw
RevokeEndpoint(p) ==
  /\ Serve
  /\ teardown' = Null
  /\ \E sigValid \in BOOLEAN :
       IF extractAndValidateNearAuth(authRec, index, p, sigValid)
       THEN \E acct \in Accounts :
            IF bundles[acct] # Null
            THEN /\ bundles' = [bundles EXCEPT ![acct] = Null]
                 /\ tokenRefs' = unlinkAccountRefs(tokenRefs, p, acct)
                 /\ index' = removeFromConnectedAccountsIndex(index, p, acct)
                 /\ revoked' = [signer |-> p, acct |-> acct, success |-> TRUE]
            ELSE /\ UNCHANGED <<bundles, tokenRefs, index>>
                 /\ revoked' = [signer |-> p, acct |-> acct, success |-> FALSE]
       ELSE /\ UNCHANGED <<bundles, tokenRefs, index>>
            /\ revoked' = Null
  /\ UNCHANGED <<sideVars, authRec, batchVars, now, platRT, issued, callVars, authStates, lastCall,
                 everAuthorized, linkRejected>>

\* the empty stores of a fresh deployment
AuthInit ==
  /\ authRec = [p \in Principals |-> Null]
  /\ tokenRefs = {}
  /\ index = [p \in Principals |-> <<>>]
  /\ bundles = [a \in Accounts |-> Null]
  /\ platRT = [a \in Accounts |-> 0]
  /\ issued = 1
  /\ now = 1
  /\ authStates = {}
  /\ lastCall = [p \in Principals |-> [op |-> "none", at |-> 0]]
  /\ everAuthorized = [p \in Principals |-> FALSE]
  /\ linkRejected = [p \in Principals |-> FALSE]
  /\ calls = 0
  /\ teardown = Null
  /\ revoked = Null
  /\ SideIdle
  /\ cpc = [c \in Callers |-> "idle"]
  /\ cop = [c \in Callers |-> "none"]
  /\ cacct = [c \in Callers |-> CHOOSE a \in Accounts : TRUE]
  /\ ctok = [c \in Callers |-> Null]
  /\ cresp = [c \in Callers |-> Null]
  /\ cres = [c \in Callers |-> Null]
  /\ signer = 1
  /\ targets = <<>>
  /\ i = 1
  /\ pc = "done"
  /\ successResults = <<>>
  /\ errorDetails = <<>>
  /\ trace = <<>>
  /\ statusCode = 0

AuthNext ==
  \/ \E p \in Principals : AuthorizeNear(p)
  \/ \E p \in Principals : UnauthorizeNear(p)
  \/ \E p \in Principals : InitializeAuth(p)
  \/ \E p \in Principals : HandleCallback(p)
  \/ \E p \in Principals : RefreshEndpoint(p)
  \/ \E p \in Principals : RevokeEndpoint(p)
  \/ Tick

SpecAuth == AuthInit /\ [][AuthNext]_vars

(***************************************************************************)
(* Concurrent NearAuthService calls: linkAccount, unlinkAccount,           *)
(* authorizeNearAccount, unauthorizeNearAccount.  Every await on the       *)
(* key-value store is a step of its own.                                   *)
(***************************************************************************)
WorkOps == {"link", "unlink", "authorize", "unauthorize"}

WorkGoto(w, step) ==
  /\ wpc' = [wpc EXCEPT ![w] = step]
  /\ UNCHANGED wres

\* principals other than 1 start out alike, so they are taken into use in
\* the order of their ids
Fresh(p) ==
  p = 1 \/ p = 2 \/ \E v \in Callers : wpc[v] # "idle" /\ wsigner[v] = p - 1

\* accounts with a bundle start out alike, and so do those without: the
\* accounts of each kind are taken into use in the order of their ids
FreshAccount(a) ==
  \A b \in Accounts :
    (b.userId < a.userId /\ (bundles[b] = Null) = (bundles[a] = Null))
      => \E v \in Callers : wpc[v] # "idle" /\ wop[v] \in {"link", "unlink"} /\ wacct[v] = b

\* the call returns: its locals go out of scope
WorkReturn(w) ==
  /\ wpc' = [wpc EXCEPT ![w] = "done"]
  /\ wres' = [wres EXCEPT ![w] = "success"]
  /\ wread' = [wread EXCEPT ![w] = Null]

\* a call arrives (calls are numbered in their order of arrival)
WorkStart(w) ==
  /\ wpc[w] = "idle"
  /\ \A v \in Callers : v < w => wpc[v] # "idle"
  /\ \E op \in WorkOps, p \in Principals, a \in Accounts :
       /\ Fresh(p)
       /\ IF op \in {"authorize", "unauthorize"} THEN a = wacct[w] ELSE FreshAccount(a)
       /\ wop' = [wop EXCEPT ![w] = op]
       /\ wsigner' = [wsigner EXCEPT ![w] = p]
       /\ wacct' = [wacct EXCEPT ![w] = a]
       /\ wpc' = [wpc EXCEPT ![w] = IF op \in {"link", "unlink"} THEN "key" ELSE "auth"]
  /\ UNCHANGED <<storeVars, batchVars, credVars, callVars, authVars, tearVars, rateVars,
                 wread, wres>>

\* storeToken: set(['token', ...]); deleteToken: delete(['token', ...])
WorkKey(w) ==
  /\ wpc[w] = "key"
  /\ tokenRefs' = IF wop[w] = "link"
                  THEN linkAccountRefs(tokenRefs, wsigner[w], wacct[w])
                  ELSE unlinkAccountRefs(tokenRefs, wsigner[w], wacct[w])
  /\ WorkGoto(w, "read")
  /\ UNCHANGED <<authRec, index, batchVars, credVars, callVars, authVars, tearVars, rateVars,
                 wop, wsigner, wacct, wread>>

\* add/removeFromConnectedAccountsIndex: get(['index', signerId])
WorkRead(w) ==
  /\ wpc[w] = "read"
  /\ wread' = [wread EXCEPT ![w] = listConnectedAccounts(index, wsigner[w])]
  /\ WorkGoto(w, "write")
  /\ UNCHANGED <<storeVars, batchVars, credVars, callVars, authVars, tearVars, rateVars,
                 wop, wsigner, wacct>>

\* an add that pushes without looking for the pair
WorkWrite_alwaysPush(w) ==
  /\ wpc[w] = "write"
  /\ index' = [index EXCEPT ![wsigner[w]] =
                 IF wop[w] = "link" THEN Append(wread[w], wacct[w])
                 ELSE SelectSeq(wread[w], LAMBDA x : x # wacct[w])]
  /\ WorkReturn(w)
  /\ UNCHANGED <<authRec, tokenRefs, batchVars, credVars, callVars, authVars, tearVars, rateVars,
                 wop, wsigner, wacct>>

\* an add that puts the new pair in front
WorkWrite_unshift(w) ==
  /\ wpc[w] = "write"
  /\ index' = IF wop[w] = "link"
              THEN IF wacct[w] \in Range(wread[w]) THEN index
                   ELSE [index EXCEPT ![wsigner[w]] = <<wacct[w]>> \o wread[w]]
              ELSE [index EXCEPT ![wsigner[w]] =
                      SelectSeq(wread[w], LAMBDA x : x # wacct[w])]
  /\ WorkReturn(w)
  /\ UNCHANGED <<authRec, tokenRefs, batchVars, credVars, callVars, authVars, tearVars, rateVars,
                 wop, wsigner, wacct>>

\* a remove that writes an empty array
WorkWrite_clearOnUnlink(w) ==
  /\ wpc[w] = "write"
  /\ index' = IF wop[w] = "link"
              THEN IF wacct[w] \in Range(wread[w]) THEN index
                   ELSE [index EXCEPT ![wsigner[w]] = Append(wread[w], wacct[w])]
              ELSE [index EXCEPT ![wsigner[w]] = <<>>]
  /\ WorkReturn(w)
  /\ UNCHANGED <<authRec, tokenRefs, batchVars, credVars, callVars, authVars, tearVars, rateVars,
                 wop, wsigner, wacct>>

\* add/removeFromConnectedAccountsIndex: set(['index', signerId], ...) of the
\* array read before, with the pair pushed (unless it is in it) or filtered out
WorkWrite(w) ==
  /\ wpc[w] = "write"
  /\ index' = IF wop[w] = "link"
              THEN IF wacct[w] \in Range(wread[w]) THEN index
                   ELSE [index EXCEPT ![wsigner[w]] = Append(wread[w], wacct[w])]
              ELSE [index EXCEPT ![wsigner[w]] =
                      SelectSeq(wread[w], LAMBDA x : x # wacct[w])]
  /\ WorkReturn(w)
  /\ UNCHANGED <<authRec, tokenRefs, batchVars, credVars, callVars, authVars, tearVars, rateVars,
                 wop, wsigner, wacct>>

\* an unauthorize that also drops the signer's index
WorkAuth_unlinks(w) ==
  /\ wpc[w] = "auth"
  /\ authRec' = IF wop[w] = "authorize"
                THEN authorizeNearAccount(authRec, wsigner[w], now)
                ELSE unauthorizeNearAccount(authRec, wsigner[w])
  /\ index' = IF wop[w] = "authorize" THEN index
              ELSE [index EXCEPT ![wsigner[w]] = <<>>]
  /\ WorkReturn(w)
  /\ UNCHANGED <<tokenRefs, batchVars, credVars, callVars, authVars, tearVars, rateVars,
                 wop, wsigner, wacct>>

\* authorizeNearAccount / unauthorizeNearAccount
WorkAuth(w) ==
  /\ wpc[w] = "auth"
  /\ authRec' = IF wop[w] = "authorize"
                THEN authorizeNearAccount(authRec, wsigner[w], now)
                ELSE unauthorizeNearAccount(authRec, wsigner[w])
  /\ WorkReturn(w)
  /\ UNCHANGED <<tokenRefs, index, batchVars, credVars, callVars, authVars, tearVars, rateVars,
                 wop, wsigner, wacct>>

\* stores as sequential use leaves them: the first k accounts linked to
\* principal 1, each with its bundle; no principal or every principal authorized
LinkInit ==
  /\ \E k \in 0..NumUsers :
       LET L == {a \in Accounts : a.userId <= NumPrincipals + k} IN
       /\ tokenRefs = {1} \X L
       /\ bundles = [a \in Accounts |-> IF a \in L THEN Bundle(1, 1, 1 + TwoHours) ELSE Null]
  /\ index = [p \in Principals |->
                SetToSeq({a \in Accounts : <<p, a>> \in tokenRefs})]
  /\ platRT = [a \in Accounts |-> IF bundles[a] = Null THEN 0 ELSE 1]
  /\ \E A \in {{}, Principals} :
       authRec = [p \in Principals |->
                    IF p \in A THEN [authorized |-> TRUE, timestamp |-> 1] ELSE Null]
  /\ lastCall = [p \in Principals |->
                   IF authRec[p] = Null THEN [op |-> "none", at |-> 0]
                   ELSE [op |-> "authorize", at |-> 1]]
  /\ everAuthorized = [p \in Principals |-> authRec[p] # Null]
  /\ linkRejected = [p \in Principals |-> FALSE]
  /\ authStates = {}
  /\ calls = 0
  /\ teardown = Null
  /\ revoked = Null
  /\ SideIdle
  /\ issued = 1
  /\ now = 1
  /\ cpc = [c \in Callers |-> "idle"]
  /\ cop = [c \in Callers |-> "none"]
  /\ cacct = [c \in Callers |-> CHOOSE a \in Accounts : TRUE]
  /\ ctok = [c \in Callers |-> Null]
  /\ cresp = [c \in Callers |-> Null]
  /\ cres = [c \in Callers |-> Null]
  /\ signer = 1
  /\ targets = <<>>
  /\ i = 1
  /\ pc = "done"
  /\ successResults = <<>>
  /\ errorDetails = <<>>
  /\ trace = <<>>
  /\ statusCode = 0

LinkNext ==
  \/ \E w \in Callers : WorkStart(w)
  \/ \E w \in Callers : WorkKey(w)
  \/ \E w \in Callers : WorkRead(w)
  \/ \E w \in Callers : WorkWrite(w)
  \/ \E w \in Callers : WorkAuth(w)

SpecLink == LinkInit /\ [][LinkNext]_vars

(***************************************************************************)
(* The OAuth callback, await by await: TwitterAuth.handleCallback reads    *)
(* the stored state, exchanges the code, saves the tokens, links the       *)
(* account through linkAccountToNear and deletes the state at the end.     *)
(* Callbacks of different requests interleave at the awaits.               *)
(***************************************************************************)
CallbackFrame ==
  UNCHANGED <<rateVars, tearVars, batchVars, callVars, authRec, now, issued,
              lastCall, everAuthorized, linkRejected, calls>>

\* the callback throws: its locals go out of scope
CallbackThrows(w, message) ==
  /\ wpc' = [wpc EXCEPT ![w] = "done"]
  /\ wres' = [wres EXCEPT ![w] = message]
  /\ wread' = [wread EXCEPT ![w] = Null]

\* a callback request arrives with the state of principal s in its query
\* (callbacks are numbered in their order of arrival):
\* kv.get(['auth', state]); if (!authState) throw 'Invalid or expired state'
CallbackState(w) ==
  /\ wpc[w] = "idle"
  /\ \A v \in Callers : v < w => wpc[v] # "idle"
  /\ \E s \in Principals :
       /\ wop' = [wop EXCEPT ![w] = "callback"]
       /\ wsigner' = [wsigner EXCEPT ![w] = s]
       /\ IF s \in authStates
          THEN /\ wread' = [wread EXCEPT ![w] = [signerId |-> s]]
               /\ WorkGoto(w, "exchange")
          ELSE CallbackThrows(w, "Invalid or expired state")
  /\ UNCHANGED <<storeVars, credVars, authStates, wacct>>
  /\ CallbackFrame

\* the platform has named the account of callback v
CallbackNamed(v) ==
  /\ wop[v] = "callback"
  /\ \/ wpc[v] \in {"save", "link", "delete"}
     \/ wpc[v] = "done" /\ wres[v] \notin {"Invalid or expired state", "exchange failed"}

\* loginWithOAuth2 and v2.me: the platform accepts the code and names the
\* account, or the exchange fails (the accounts start out alike, so they are
\* taken into use in the order of their ids)
CallbackExchange(w) ==
  /\ wpc[w] = "exchange"
  /\ \E accepted \in BOOLEAN, acct \in Accounts :
       IF accepted
       THEN /\ \A b \in Accounts :
                 b.userId < acct.userId => \E v \in Callers : CallbackNamed(v) /\ wacct[v] = b
            /\ wacct' = [wacct EXCEPT ![w] = acct]
            /\ WorkGoto(w, "save")
            /\ UNCHANGED wread
       ELSE /\ acct = wacct[w]
            /\ CallbackThrows(w, "exchange failed")
            /\ UNCHANGED wacct
  /\ UNCHANGED <<storeVars, credVars, authStates, wop, wsigner>>
  /\ CallbackFrame

\* tokenStorage.saveTokens(userId, tokens, 'twitter')
CallbackSave(w) ==
  /\ wpc[w] = "save"
  /\ \E saved \in BOOLEAN :
       IF saved
       THEN /\ bundles' = [bundles EXCEPT ![wacct[w]] = Bundle(1, 1, now + TwoHours)]
            /\ platRT' = [platRT EXCEPT ![wacct[w]] = 1]
            /\ WorkGoto(w, "link")
            /\ UNCHANGED wread
       ELSE /\ CallbackThrows(w, "save failed")
            /\ UNCHANGED <<bundles, platRT>>
  /\ UNCHANGED <<storeVars, authStates, wop, wsigner, wacct>>
  /\ CallbackFrame

\* a linkAccountToNear that writes the link although saving the tokens failed
CallbackLink_linkUnsaved(w) ==
  /\ wpc[w] = "link"
  /\ \E saved \in BOOLEAN :
       /\ tokenRefs' = linkAccountRefs(IF saved THEN saveTokensRefs(tokenRefs, index, wacct[w])
                                       ELSE tokenRefs,
                                       wread[w].signerId, wacct[w])
       /\ index' = addToConnectedAccountsIndex(index, wread[w].signerId, wacct[w])
       /\ IF saved
          THEN /\ bundles' = [bundles EXCEPT ![wacct[w]] = Bundle(1, 1, now + TwoHours)]
               /\ WorkGoto(w, "delete")
               /\ UNCHANGED wread
          ELSE /\ CallbackThrows(w, "Failed to link account to NEAR wallet")
               /\ UNCHANGED bundles
  /\ UNCHANGED <<authRec, platRT, authStates, wop, wsigner, wacct>>
  /\ CallbackFrame

\* linkAccountToNear: tokenManager.saveTokens, then tokenManager.linkAccount
\* for the signer of the stored state; a failure of either is rethrown
CallbackLink(w) ==
  /\ wpc[w] = "link"
  /\ \E saved \in BOOLEAN :
       IF saved
       THEN /\ bundles' = [bundles EXCEPT ![wacct[w]] = Bundle(1, 1, now + TwoHours)]
            /\ tokenRefs' = linkAccountRefs(saveTokensRefs(tokenRefs, index, wacct[w]),
                                            wread[w].signerId, wacct[w])
            /\ index' = addToConnectedAccountsIndex(index, wread[w].signerId, wacct[w])
            /\ WorkGoto(w, "delete")
            /\ UNCHANGED wread
       ELSE /\ CallbackThrows(w, "Failed to link account to NEAR wallet")
            /\ UNCHANGED <<bundles, tokenRefs, index>>
  /\ UNCHANGED <<authRec, platRT, authStates, wop, wsigner, wacct>>
  /\ CallbackFrame

\* kv.delete(['auth', state]) and the return of the account
CallbackDelete(w) ==
  /\ wpc[w] = "delete"
  /\ authStates' = authStates \ {wsigner[w]}
  /\ WorkReturn(w)
  /\ UNCHANGED <<storeVars, credVars, wop, wsigner, wacct>>
  /\ CallbackFrame

\* the entry of a state lapses (expireIn: 3600000)
StateExpires ==
  /\ \E s \in authStates : authStates' = authStates \ {s}
  /\ UNCHANGED <<storeVars, credVars, workVars>>
  /\ CallbackFrame

\* initializeAuth has stored a state for some of the principals (they are
\* alike, so for the first k of them); no account is connected yet
CallbackInit ==
  /\ \E k \in 0..NumPrincipals : authStates = 1..k
  /\ tokenRefs = {}
  /\ bundles = [a \in Accounts |-> Null]
  /\ index = [p \in Principals |-> <<>>]
  /\ platRT = [a \in Accounts |-> 0]
  /\ authRec = [p \in Principals |-> [authorized |-> TRUE, timestamp |-> 1]]
  /\ lastCall = [p \in Principals |-> [op |-> "authorize", at |-> 1]]
  /\ everAuthorized = [p \in Principals |-> TRUE]
  /\ linkRejected = [p \in Principals |-> FALSE]
  /\ calls = 0
  /\ teardown = Null
  /\ revoked = Null
  /\ SideIdle
  /\ issued = 1
  /\ now = 1
  /\ cpc = [c \in Callers |-> "idle"]
  /\ cop = [c \in Callers |-> "none"]
  /\ cacct = [c \in Callers |-> CHOOSE a \in Accounts : TRUE]
  /\ ctok = [c \in Callers |-> Null]
  /\ cresp = [c \in Callers |-> Null]
  /\ cres = [c \in Callers |-> Null]
  /\ signer = 1
  /\ targets = <<>>
  /\ i = 1
  /\ pc = "done"
  /\ successResults = <<>>
  /\ errorDetails = <<>>
  /\ trace = <<>>
  /\ statusCode = 0

CallbackNext ==
  \/ \E w \in Callers : CallbackState(w)
  \/ \E w \in Callers : CallbackExchange(w)
  \/ \E w \in Callers : CallbackSave(w)
  \/ \E w \in Callers : CallbackLink(w)
  \/ \E w \in Callers : CallbackDelete(w)
  \/ StateExpires

SpecCallback == CallbackInit /\ [][CallbackNext]_vars

(***************************************************************************)
(* A post request from its route: AuthMiddleware.validateNearSignature,    *)
(* then the controller's handle() with processMultipleTargets.  signer 0   *)
(* stands for a request whose Authorization header is missing or does not  *)
(* validate, so that no principal comes out of it.                         *)
(***************************************************************************)
\* the middleware: the capability token yields a principal and the principal
\* passes the authorization gate (status not -1)
validateNearSignature(rec, idx, p, recFails) ==
  \E idxFails \in BOOLEAN :
    extractAndValidateNearAuthRead(rec, idx, p, p # 0, recFails, idxFails)

\* a route whose handler runs whatever the middleware found
PostGate_noGate ==
  /\ pc = "gate"
  /\ pc' = IF Len(targets) >= 1 THEN "access" ELSE "respond"
  /\ UNCHANGED <<sideVars, tearVars, authVars, storeVars, credVars, callVars, signer, targets,
                 i, successResults, errorDetails, trace, statusCode>>

\* post routes: the middleware runs before the handler; a rejected request
\* is answered 401 and the handler is not called
PostGate ==
  /\ pc = "gate"
  /\ \E recFails \in BOOLEAN :
       IF validateNearSignature(authRec, index, signer, recFails)
       THEN /\ pc' = IF Len(targets) >= 1 THEN "access" ELSE "respond"
            /\ UNCHANGED statusCode
       ELSE /\ pc' = "rejected"
            /\ statusCode' = 401
  /\ UNCHANGED <<sideVars, tearVars, authVars, storeVars, credVars, callVars, signer, targets,
                 i, successResults, errorDetails, trace>>

\* a request with no valid token (signer 0) or in the name of principal 1,
\* who is authorized or not, with some accounts linked to principal 1 and the
\* others to the other principals
PostInit ==
  /\ signer \in {0, 1}
  /\ targets \in SeqsUpTo(Accounts, MaxTargets)
  /\ \E L \in SUBSET Accounts :
       /\ tokenRefs = ({1} \X L) \cup ((Principals \ {1}) \X (Accounts \ L))
       /\ index = [p \in Principals |->
                     SetToSeq({a \in Accounts : <<p, a>> \in tokenRefs})]
  /\ \E A \in {Principals \ {1}, Principals} :
       /\ authRec = [p \in Principals |->
                       IF p \in A THEN [authorized |-> TRUE, timestamp |-> 0] ELSE Null]
       /\ lastCall = [p \in Principals |->
                        IF p \in A THEN [op |-> "authorize", at |-> 0]
                        ELSE [op |-> "unauthorize", at |-> 0]]
  /\ i = 1
  /\ pc = "gate"
  /\ successResults = <<>>
  /\ errorDetails = <<>>
  /\ trace = <<>>
  /\ statusCode = 0
  /\ bundles = [a \in Accounts |-> Null]
  /\ now = 0
  /\ platRT = [a \in Accounts |-> 0]
  /\ issued = 1
  /\ cpc = [c \in Callers |-> "idle"]
  /\ cop = [c \in Callers |-> "none"]
  /\ cacct = [c \in Callers |-> CHOOSE a \in Accounts : TRUE]
  /\ ctok = [c \in Callers |-> Null]
  /\ cresp = [c \in Callers |-> Null]
  /\ cres = [c \in Callers |-> Null]
  /\ authStates = {}
  /\ everAuthorized = [p \in Principals |-> TRUE]
  /\ linkRejected = [p \in Principals |-> FALSE]
  /\ calls = 0
  /\ teardown = Null
  /\ revoked = Null
  /\ SideIdle

PostNext ==
  \/ PostGate
  \/ BatchVerifyAccess
  \/ BatchCheckRateLimits
  \/ BatchProcess
  \/ BatchDelay
  \/ BatchRespond

SpecPost == PostInit /\ [][PostNext]_vars

(***************************************************************************)
(* RateLimitService.canPerformAction on its own: a call is given what the  *)
(* platform's rate-limit implementation does and the time of the call      *)
(***************************************************************************)
\* supported: rateLimitMap has the platform; mapped: getEndpointForAction
\* knows the action; source: what getRateLimitStatus does; remaining and
\* reset: the window it reports
RateInputs ==
  [supported : BOOLEAN, mapped : BOOLEAN, source : {"throws", "null"},
   remaining : {0}, reset : {0}]
  \cup [supported : BOOLEAN, mapped : BOOLEAN, source : {"status"},
        remaining : 0..MaxRemaining, reset : 0..MaxClock]

\* plugin.isRateLimitStatusObsolete: the reset time lies before the clock
isRateLimitStatusObsolete(reset, t) == reset < t

\* what canPerformAction meets on its way, in the order of its statements
RateQuery(in, t) ==
  [kind |-> IF ~in.supported THEN "unsupported"
            ELSE IF ~in.mapped THEN "unmapped"
            ELSE in.source,
   remaining |-> in.remaining,
   resetPassed |-> isRateLimitStatusObsolete(in.reset, t)]

\* the boolean a call resolves with
Resolved(b) == IF b THEN "true" ELSE "false"

\* the call runs and answers
RateCall ==
  /\ rans = "pending"
  /\ rans' = Resolved(canPerformAction(RateQuery(rin, now)))
  /\ UNCHANGED <<workVars, rin, tearVars, authVars, storeVars, batchVars, credVars, callVars>>

\* the next call, no earlier than the one before
RateAgain ==
  /\ rans # "pending"
  /\ rin' \in RateInputs
  /\ now' \in now..MaxClock
  /\ rans' = "pending"
  /\ UNCHANGED <<workVars, tearVars, authVars, storeVars, batchVars, bundles, platRT, issued,
                 callVars>>

RateInit ==
  /\ rin \in RateInputs
  /\ rans = "pending"
  /\ now \in 0..MaxClock
  /\ wpc = [w \in Callers |-> "idle"]
  /\ wop = [w \in Callers |-> "none"]
  /\ wsigner = [w \in Callers |-> 1]
  /\ wacct = [w \in Callers |-> CHOOSE a \in Accounts : TRUE]
  /\ wread = [w \in Callers |-> Null]
  /\ wres = [w \in Callers |-> "none"]
  /\ authRec = [p \in Principals |-> Null]
  /\ tokenRefs = {}
  /\ index = [p \in Principals |-> <<>>]
  /\ bundles = [a \in Accounts |-> Null]
  /\ platRT = [a \in Accounts |-> 0]
  /\ issued = 1
  /\ authStates = {}
  /\ lastCall = [p \in Principals |-> [op |-> "none", at |-> 0]]
  /\ everAuthorized = [p \in Principals |-> FALSE]
  /\ linkRejected = [p \in Principals |-> FALSE]
  /\ calls = 0
  /\ teardown = Null
  /\ revoked = Null
  /\ cpc = [c \in Callers |-> "idle"]
  /\ cop = [c \in Callers |-> "none"]
  /\ cacct = [c \in Callers |-> CHOOSE a \in Accounts : TRUE]
  /\ ctok = [c \in Callers |-> Null]
  /\ cresp = [c \in Callers |-> Null]
  /\ cres = [c \in Callers |-> Null]
  /\ signer = 1
  /\ targets = <<>>
  /\ i = 1
  /\ pc = "done"
  /\ successResults = <<>>
  /\ errorDetails = <<>>
  /\ trace = <<>>
  /\ statusCode = 0

RateNext ==
  \/ RateCall
  \/ RateAgain

SpecRate == RateInit /\ [][RateNext]_vars

(***************************************************************************)
(* Claims on the multi-target orchestration (SpecBatch)                    *)
(***************************************************************************)
Events(kind, k) == {n \in DOMAIN trace : trace[n] = <<kind, k>>}
Count(s, k) == Cardinality({n \in DOMAIN s : s[n].pos = k})
OutcomesOf(k) == Count(successResults, k) + Count(errorDetails, k)
\* targets whose iteration has recorded its outcome
Settled == IF pc = "delay" THEN 1..i ELSE 1..(i - 1)
Positions(s) == [n \in DOMAIN s |-> s[n].pos]
ErrorAt(k) == CHOOSE e \in {errorDetails[n] : n \in DOMAIN errorDetails} : e.pos = k

\* C1: a per-target failure never aborts the batch: every target gets exactly
\* one outcome, so when the loop is left |successResults| + |errorDetails| =
\* |targets|, and the callback is invoked at most once per target.
C1_OneOutcomePerTarget ==
  /\ \A k \in 1..Len(targets) : OutcomesOf(k) = (IF k \in Settled THEN 1 ELSE 0)
  /\ \A k \in 1..Len(targets) : Cardinality(Events("invoke", k)) <= 1
  /\ pc \in {"respond", "done"} =>
       Len(successResults) + Len(errorDetails) = Len(targets)

C1_Witness ==
  /\ pc = "done"
  /\ Len(targets) = 3
  /\ Len(errorDetails) = 3
  /\ errorDetails[1].errorCode = "UNAUTHORIZED"
  /\ errorDetails[2].errorCode = "RATE_LIMITED"
  /\ Events("threw", 3) # {}

\* C2: targets are processed in input order, one at a time, and both result
\* lists keep the input order; for [A,B,C] where B's callback throws and A and
\* C succeed: successes = [A,C], errors = [B] and the response is 207.
C2_InputOrder ==
  /\ \A n \in 1..(Len(trace) - 1) : trace[n][2] <= trace[n + 1][2]
  /\ \A n \in 1..(Len(successResults) - 1) :
       successResults[n].pos < successResults[n + 1].pos
  /\ \A n \in 1..(Len(errorDetails) - 1) :
       errorDetails[n].pos < errorDetails[n + 1].pos
  /\ \A n \in DOMAIN successResults :
       /\ successResults[n].platform = targets[successResults[n].pos].platform
       /\ successResults[n].userId = targets[successResults[n].pos].userId
  /\ \A n \in DOMAIN errorDetails :
       /\ errorDetails[n].platform = targets[errorDetails[n].pos].platform
       /\ errorDetails[n].userId = targets[errorDetails[n].pos].userId
  /\ pc \in {"access", "rate", "exec"} => \A k \in 1..(i - 1) : OutcomesOf(k) = 1
  /\ ( /\ pc = "done"
       /\ Len(targets) = 3
       /\ Events("returned", 1) # {}
       /\ Events("threw", 2) # {}
       /\ Events("returned", 3) # {} )
     => /\ Positions(successResults) = <<1, 3>>
        /\ Positions(errorDetails) = <<2>>
        /\ statusCode = 207

C2_Witness ==
  /\ pc = "done"
  /\ Len(targets) = 3
  /\ targets[1] # targets[2]
  /\ Events("returned", 1) # {}
  /\ Events("threw", 2) # {}
  /\ Events("returned", 3) # {}

\* C3: a target the signer has no link to gets an UNAUTHORIZED error marked
\* recoverable, and neither the rate check nor the callback runs for it; the
\* callback only ever runs for linked targets.
C3_NoActionWithoutLink ==
  \A k \in 1..Len(targets) :
    /\ (k \in Settled /\ <<signer, targets[k]>> \notin tokenRefs) =>
         /\ OutcomesOf(k) = 1
         /\ \E n \in DOMAIN errorDetails :
              /\ errorDetails[n].pos = k
              /\ errorDetails[n].errorCode = "UNAUTHORIZED"
              /\ errorDetails[n].recoverable = TRUE
         /\ Events("rate", k) = {}
         /\ Events("invoke", k) = {}
    /\ (Events("rate", k) # {} \/ Events("invoke", k) # {}) =>
         <<signer, targets[k]>> \in tokenRefs

C3_Witness ==
  /\ pc = "done"
  /\ Len(targets) = 2
  /\ <<signer, targets[1]>> \notin tokenRefs
  /\ \E p \in Principals : <<p, targets[1]>> \in tokenRefs
  /\ Events("invoke", 2) # {}

\* C4: a non-empty batch is classified by exactly one rule: only successes
\* gives 200; only errors gives the status mapped from the code of the error
\* of the earliest failing target; successes and errors together give 207,
\* and 207 is given in no other case.
C4_Classification ==
  (pc = "done" /\ Len(targets) >= 1) =>
    /\ (errorDetails = <<>>) => statusCode = 200
    /\ (successResults = <<>>) =>
         statusCode = getStatusCodeForError(ErrorAt(1).errorCode)
    /\ (statusCode = 207) <=> (successResults # <<>> /\ errorDetails # <<>>)

C4_Witness ==
  /\ pc = "done"
  /\ successResults = <<>>
  /\ Len(errorDetails) = 3
  /\ errorDetails[1].errorCode = "RATE_LIMITED"
  /\ errorDetails[3].errorCode = "UNAUTHORIZED"
  /\ statusCode = 429

(***************************************************************************)
(* Claims on the credential lifecycle (SpecCred)                           *)
(***************************************************************************)
\* the request of caller c ends in this step
Ends(c) == cpc[c] # "done" /\ cpc'[c] = "done"

\* the refresh of caller c ends in this step, the platform having answered
RefreshEnds(c) == cpc[c] = "responded" /\ Ends(c)

\* the invalid-grant classification of the path caller c is on
Classified(c) ==
  IF cop[c] = "refreshToken" THEN isInvalidGrantAuth(cresp[c].error)
  ELSE isInvalidGrantClient(cresp[c].error)

\* an error that tells the caller to reauthorize: a 401 / UNAUTHORIZED error,
\* or at least the message asking to reconnect the account
IsReauthRequired(e) ==
  e.code = "UNAUTHORIZED" \/ e.status = 401 \/ e.msg = AuthExpiredError.msg

\* C5: refresh is single-flighted per account: at no time are two upstream
\* refresh calls for the same account in flight
C5_SingleFlight ==
  \A c, d \in Callers :
    (c # d /\ cacct[c] = cacct[d]) => ~(cpc[c] = "inflight" /\ cpc[d] = "inflight")

\* C6: when the bundle read was expired and the refresh fails with a
\* classified invalid-grant error, the bundle is deleted and the call fails
\* with a reauthorization-required error
C6_ReauthOnInvalidGrant ==
  [][\A c \in Callers :
       (RefreshEnds(c) /\ ~cresp[c].ok /\ Expired(ctok[c], now) /\ Classified(c))
         => /\ bundles'[cacct[c]] = Null
            /\ cres'[c].kind = "error"
            /\ IsReauthRequired(cres'[c].error)]_vars

C9_AuthorizeRoundTrip ==
  \A p \in Principals :
    /\ isNearAccountAuthorized(authRec, p) <=> lastCall[p].op = "authorize"
    /\ lastCall[p].op = "authorize"
         => authRec[p] = [authorized |-> TRUE, timestamp |-> lastCall[p].at]
    /\ lastCall[p].op \in {"none", "unauthorize"} => authRec[p] = Null

\* one principal was authorized and then unauthorized, another was authorized
\* again at a later time, a third kind of history (none) aside
C9_Witness ==
  \E p, q \in Principals :
    /\ p # q
    /\ lastCall[p].op = "unauthorize"
    /\ ~isNearAccountAuthorized(authRec, p)
    /\ lastCall[q].op = "authorize"
    /\ lastCall[q].at > 1
    /\ isNearAccountAuthorized(authRec, q)

\* C10: a principal that was never authorized has no token reference, no
\* index entry and no pending auth state, whatever link requests it made
C10_NoLinkWithoutAuthorization ==
  \A p \in Principals :
    ~everAuthorized[p] =>
      /\ \A a \in Accounts : <<p, a>> \notin tokenRefs
      /\ listConnectedAccounts(index, p) = <<>>
      /\ p \notin authStates
      /\ \A a \in Accounts : ~hasAccess(tokenRefs, p, a, FALSE)

\* a never-authorized principal asked for a link of an account that has
\* refreshable tokens and is linked to another principal, and was rejected
C10_Witness ==
  \E p, q \in Principals, a \in Accounts :
    /\ ~everAuthorized[p]
    /\ linkRejected[p]
    /\ listConnectedAccounts(index, p) = <<>>
    /\ <<q, a>> \in tokenRefs
    /\ bundles[a] # Null
    /\ bundles[a].refreshToken # 0

(***************************************************************************)
(* Claims on concurrent NearAuthService calls (SpecLink)                   *)
(***************************************************************************)
AllReturned == \A w \in Callers : wpc[w] = "done"

\* some call was op for principal p and account a
Called(op, p, a) ==
  \E w \in Callers : wop[w] = op /\ wsigner[w] = p /\ wacct[w] = a

\* the number of entries of p's index that are the pair a
Entries(p, a) ==
  Cardinality({k \in DOMAIN listConnectedAccounts(index, p) :
                 listConnectedAccounts(index, p)[k] = a})

\* C11: in every state reached by link and unlink calls, in any interleaving,
\* no principal's connected-accounts list holds a pair twice
C11_NoDuplicateLinks ==
  \A p \in Principals : \A a \in Accounts : Entries(p, a) <= 1

\* two identical link calls have returned and left exactly one entry
C11_Witness ==
  \E v, w \in Callers :
    /\ v # w
    /\ wop[v] = "link" /\ wop[w] = "link"
    /\ wsigner[v] = wsigner[w] /\ wacct[v] = wacct[w]
    /\ wpc[v] = "done" /\ wpc[w] = "done"
    /\ Entries(wsigner[v], wacct[v]) = 1

\* C12: concurrent link and unlink calls lose no update: once all have
\* returned, a pair that was linked and not unlinked is in the principal's
\* list, and a pair that was unlinked and not linked is not in it
C12_NoLostUpdate ==
  AllReturned =>
    \A p \in Principals : \A a \in Accounts :
      /\ (Called("link", p, a) /\ ~Called("unlink", p, a)) => Entries(p, a) = 1
      /\ (Called("unlink", p, a) /\ ~Called("link", p, a)) => Entries(p, a) = 0

\* C16: unauthorizeNearAccount(p) returns success and changes nothing but
\* p's authorization record, which is absent afterwards; when p was not
\* authorized it changes nothing at all
C16_UnauthorizeFrame ==
  [][\A w \in Callers :
       (wop[w] = "unauthorize" /\ wpc[w] = "auth" /\ wpc'[w] = "done")
         => /\ wres'[w] = "success"
            /\ authRec'[wsigner[w]] = Null
            /\ \A q \in Principals : q # wsigner[w] => authRec'[q] = authRec[q]
            /\ authRec[wsigner[w]] = Null => authRec' = authRec
            /\ index' = index
            /\ tokenRefs' = tokenRefs
            /\ bundles' = bundles]_vars

\* unauthorizeNearAccount has returned twice for a principal that keeps its
\* links and their bundles, while another principal stays authorized
C16_Witness ==
  \E v, w \in Callers, q \in Principals, a \in Accounts :
    /\ v # w
    /\ wop[v] = "unauthorize" /\ wop[w] = "unauthorize"
    /\ wsigner[v] = wsigner[w]
    /\ wpc[v] = "done" /\ wpc[w] = "done"
    /\ wres[v] = "success" /\ wres[w] = "success"
    /\ authRec[wsigner[v]] = Null
    /\ a \in Range(listConnectedAccounts(index, wsigner[v]))
    /\ <<wsigner[v], a>> \in tokenRefs
    /\ bundles[a] # Null
    /\ q # wsigner[v]
    /\ isNearAccountAuthorized(authRec, q)

C15_TeardownCollected ==
  [][(calls' = calls + 1 /\ teardown' # Null) =>
       \A a \in Range(listConnectedAccounts(index, teardown'.signer)) :
         \/ a \notin Range(listConnectedAccounts(index', teardown'.signer))
         \/ a \in teardown'.unlinkErrors]_vars

\* the accounts of which principal p holds a token reference
LinkedTo(p) == {a \in Accounts : hasAccess(tokenRefs, p, a, FALSE)}

\* C17: after any sequence of endpoint calls the status of p is -1 exactly
\* when p's last successful authorize/unauthorize call was not an authorize,
\* and otherwise it is the number of distinct accounts linked to p, counted
\* in p's list as well as by p's token references
C17_StatusCounts ==
  \A p \in Principals :
    LET status == getNearAuthorizationStatus(authRec, index, p) IN
    /\ (status = -1) <=> (lastCall[p].op # "authorize")
    /\ (status >= 0) <=> isNearAccountAuthorized(authRec, p)
    /\ status >= 0 =>
         /\ status = Cardinality(Range(listConnectedAccounts(index, p)))
         /\ status = Cardinality(LinkedTo(p))

\* one principal has a positive status while another, authorized before, has
\* status -1 after its unauthorize
C17_Witness ==
  \E p, q \in Principals :
    /\ getNearAuthorizationStatus(authRec, index, p) > 0
    /\ Cardinality(LinkedTo(p)) > 0
    /\ getNearAuthorizationStatus(authRec, index, q) = -1
    /\ lastCall[q].op = "unauthorize"
    /\ everAuthorized[q]

(***************************************************************************)
(* Claims on the rate-limit gate in the orchestration (SpecBatch)          *)
(***************************************************************************)
\* C18: a target for which the rate-limit gate answered false gets a
\* RATE_LIMITED error marked recoverable as its one outcome and its callback
\* is never invoked; the gate is asked only for linked targets, right after
\* their access check has passed
C18_RateLimitedSkipsAction ==
  \A k \in 1..Len(targets) :
    /\ Events("refused", k) # {} =>
         /\ Events("invoke", k) = {}
         /\ k \in Settled
         /\ OutcomesOf(k) = 1
         /\ ErrorAt(k) = createErrorDetail("RATE_LIMITED", TRUE, targets[k], k)
    /\ \A n \in Events("rate", k) :
         /\ n > 1
         /\ trace[n - 1] = <<"access", k>>
         /\ hasAccess(tokenRefs, signer, targets[k], FALSE)

\* a batch has ended in which the gate refused the first, linked target and
\* the callback ran for the second
C18_Witness ==
  /\ pc = "done"
  /\ Len(targets) >= 2
  /\ hasAccess(tokenRefs, signer, targets[1], FALSE)
  /\ Events("refused", 1) # {}
  /\ errorDetails[1].errorCode = "RATE_LIMITED"
  /\ errorDetails[1].recoverable
  /\ Events("returned", 2) # {}

C19_FailOpen ==
  rans # "pending" =>
    /\ rans \in {"true", "false"}
    /\ (~rin.supported \/ ~rin.mapped \/ rin.source \in {"throws", "null"})
         => rans = "true"

\* calls have answered true for a query that threw
C19_Witness ==
  /\ rans = "true"
  /\ rin.supported /\ rin.mapped
  /\ rin.source = "throws"

\* C20: canPerformAction answers false exactly for a reported window with
\* remaining = 0 whose reset time has not passed at the time of the call; a
\* window whose reset time has passed or with remaining > 0 gives true
C20_FalseOnlyWhenExhausted ==
  rans # "pending" =>
    /\ rans = "false" =>
         /\ rin.supported /\ rin.mapped /\ rin.source = "status"
         /\ rin.remaining = 0
         /\ ~(rin.reset < now)
    /\ (rin.source = "status" /\ (rin.remaining > 0 \/ rin.reset < now))
         => rans = "true"
    /\ (rin.supported /\ rin.mapped /\ rin.source = "status"
          /\ rin.remaining = 0 /\ ~(rin.reset < now))
         => rans = "false"

\* an exhausted window was refused before its reset time and is let through
\* after it
C20_Witness ==
  /\ rans = "true"
  /\ rin.supported /\ rin.mapped /\ rin.source = "status"
  /\ rin.remaining = 0
  /\ rin.reset < now
  /\ rin.reset > 0

(***************************************************************************)
(* Claims on the outcomes of the orchestration (SpecBatch)                 *)
(***************************************************************************)
\* C21: the error recorded for a target whose callback threw has the code
\* and the recoverable flag of the thrown error when that is a PlatformError,
\* and PLATFORM_ERROR with recoverable = false otherwise; it carries the
\* platform and userId of that target
C21_ThrownErrorClassified ==
  \A n \in DOMAIN trace :
    trace[n][1] = "error" =>
      LET k == trace[n][2]
          e == trace[n][3]
          d == ErrorAt(k)
      IN /\ OutcomesOf(k) = 1
         /\ Count(errorDetails, k) = 1
         /\ d.platform = targets[k].platform
         /\ d.userId = targets[k].userId
         /\ e.cls = "PlatformError" =>
              d.errorCode = e.code /\ d.recoverable = e.recoverable
         /\ e.cls # "PlatformError" =>
              d.errorCode = "PLATFORM_ERROR" /\ d.recoverable = FALSE

\* a batch has ended in which one callback threw a recoverable PlatformError
\* and the callback of a different account threw a plain Error
C21_Witness ==
  /\ pc = "done"
  /\ \E m, n \in DOMAIN trace :
       /\ trace[m][1] = "error" /\ trace[n][1] = "error"
       /\ trace[m][3].cls = "PlatformError" /\ trace[m][3].recoverable
       /\ trace[n][3].cls = "Error"
       /\ targets[trace[m][2]] # targets[trace[n][2]]

(***************************************************************************)
(* Claims on failed refreshes and plain reads (SpecCred)                   *)
(***************************************************************************)
\* C24: when the platform answers a refresh with an error that the path does
\* not take for an invalid grant, the call ends with an error and the step
\* leaves the stored bundles, the token references and the index as they were
C24_TransientRefreshKeepsBundle ==
  [][\A c \in Callers :
       LET e == cresp[c].error IN
       (RefreshEnds(c) /\ ~cresp[c].ok
        /\ ~(e.dataError = "invalid_request" \/ e.grant400
             \/ (cop[c] = "getClient" /\ e.descInvalid)))
         => /\ cres'[c].kind = "error"
            /\ bundles' = bundles
            /\ tokenRefs' = tokenRefs
            /\ index' = index]_vars

\* a use of the client has ended with 'Token refresh failed', the bundle is
\* still stored with its refresh token, and a refreshToken call for the same
\* account has got new tokens
C24_Witness ==
  \E c, d \in Callers :
    /\ cop[c] = "getClient" /\ cpc[c] = "done"
    /\ cres[c].kind = "error" /\ cres[c].error = RefreshFailedError
    /\ cop[d] = "refreshToken" /\ cpc[d] = "done"
    /\ cacct[d] = cacct[c]
    /\ cres[d].kind = "ok"
    /\ bundles[cacct[c]] # Null
    /\ bundles[cacct[c]].refreshToken # 0

\* C25: a getTokens call that reads a stored bundle whose expiresAt is absent
\* or not before the clock returns that bundle in the same step, and the step
\* changes no bundle, no token reference, no index and nothing at the platform
C25_UnexpiredReadIsPure ==
  [][\A c \in Callers :
       LET b == bundles[cacct[c]] IN
       (cop[c] = "getTokens" /\ cpc[c] = "read" /\ cpc'[c] # "read"
        /\ b # Null /\ (b.expiresAt = 0 \/ b.expiresAt >= now))
         => /\ cpc'[c] = "done"
            /\ cres'[c] = Returned(b)
            /\ bundles' = bundles
            /\ tokenRefs' = tokenRefs
            /\ index' = index
            /\ platRT' = platRT
            /\ issued' = issued]_vars

\* after time has passed, a getTokens call has returned the stored bundle
\* that has no expiresAt, and that bundle is still stored and linked
C25_Witness ==
  /\ now > 1
  /\ \E c \in Callers :
       /\ cop[c] = "getTokens" /\ cpc[c] = "done" /\ cres[c].kind = "ok"
       /\ cres[c].bundle.expiresAt = 0
       /\ bundles[cacct[c]] = cres[c].bundle
       /\ <<1, cacct[c]>> \in tokenRefs

\* C22: a batch of N >= 1 targets of which none is linked to the caller ends
\* with no success and N errors, all UNAUTHORIZED and one per target in the
\* order of the request; no rate check and no callback ran, and the status is
\* the one mapped from UNAUTHORIZED, which is neither 200 nor 207
C22_UnlinkedBatchFails ==
  (/\ pc = "done"
   /\ Len(targets) >= 1
   /\ \A k \in 1..Len(targets) : <<signer, targets[k]>> \notin tokenRefs)
    => /\ successResults = <<>>
       /\ Len(errorDetails) = Len(targets)
       /\ \A k \in 1..Len(targets) :
            /\ errorDetails[k].errorCode = "UNAUTHORIZED"
            /\ errorDetails[k].platform = targets[k].platform
            /\ errorDetails[k].userId = targets[k].userId
            /\ Events("invoke", k) = {}
            /\ Events("rate", k) = {}
       /\ statusCode = getStatusCodeForError("UNAUTHORIZED")
       /\ statusCode \notin {200, 207}

\* a batch of MaxTargets targets, linked to another principal but not to the
\* caller, has ended
C22_Witness ==
  /\ pc = "done"
  /\ Len(targets) = MaxTargets
  /\ \A k \in 1..Len(targets) :
       /\ <<signer, targets[k]>> \notin tokenRefs
       /\ \E q \in Principals : <<q, targets[k]>> \in tokenRefs
  /\ Len(errorDetails) = MaxTargets
  /\ targets[1] # targets[2]

(***************************************************************************)
(* Claims on whole requests for one target (SpecBatch, SpecPost)          *)
(***************************************************************************)
\* C23: the request of an authorized principal for one target that is linked
\* to it, whose rate check was run and let it through and whose callback did
\* not throw, has called the callback exactly once and ends with one success
\* for that target, no error and status 200
C23_SingleLinkedTargetSucceeds ==
  (/\ pc = "done"
   /\ signer # 0
   /\ isNearAccountAuthorized(authRec, signer)
   /\ Len(targets) = 1
   /\ <<signer, targets[1]>> \in tokenRefs
   /\ Events("rate", 1) # {}
   /\ Events("refused", 1) = {}
   /\ Events("threw", 1) = {})
    => /\ Cardinality(Events("invoke", 1)) = 1
       /\ Cardinality(Events("returned", 1)) = 1
       /\ Len(successResults) = 1
       /\ successResults[1].platform = targets[1].platform
       /\ successResults[1].userId = targets[1].userId
       /\ errorDetails = <<>>
       /\ statusCode = 200

\* such a request has ended
C23_Witness ==
  /\ pc = "done"
  /\ signer = 1
  /\ isNearAccountAuthorized(authRec, 1)
  /\ Len(targets) = 1
  /\ targets[1] \in Range(index[1])
  /\ <<1, targets[1]>> \in tokenRefs
  /\ Events("invoke", 1) # {}
  /\ Len(successResults) = 1
  /\ statusCode = 200

(***************************************************************************)
(* Claims on unlinking and on the order of the list (SpecLink)             *)
(***************************************************************************)
\* the step of call w that leaves the program position at
Leaves(w, at) == wpc[w] = at /\ wpc'[w] # at

\* no other call has written the signer's index since call w read it
ReadIsCurrent(w) == wread[w] = index[wsigner[w]]

\* C26: the step of unlinkAccount that deletes the token key leaves the pair
\* without access and changes nothing when the key was not there; the step
\* that writes the index returns success with the pair absent from the list
\* and, unless a linkAccount call for the same pair has arrived, still without
\* access; when the pair was not in the list that the call read and no other call
\* wrote the list since, the list is unchanged
C26_UnlinkIdempotent ==
  [][\A w \in Callers :
       LET p == wsigner[w]  a == wacct[w] IN
       wop[w] = "unlink" =>
         /\ Leaves(w, "key") =>
              /\ <<p, a>> \notin tokenRefs'
              /\ ~hasAccess(tokenRefs', p, a, FALSE)
              /\ <<p, a>> \notin tokenRefs => tokenRefs' = tokenRefs
         /\ Leaves(w, "write") =>
              /\ wres'[w] = "success"
              /\ a \notin Range(listConnectedAccounts(index', p))
              /\ \/ ~hasAccess(tokenRefs, p, a, FALSE)
                 \/ \E v \in Callers \ {w} :
                      wop[v] = "link" /\ wsigner[v] = p /\ wacct[v] = a
              /\ (ReadIsCurrent(w) /\ a \notin Range(index[p])) => index' = index]_vars

\* two unlinkAccount calls for the same pair, which was linked at the start,
\* have both returned success
C26_Witness ==
  /\ \A w \in Callers : wpc[w] = "done" /\ wop[w] = "unlink" /\ wres[w] = "success"
  /\ \A v, w \in Callers : wsigner[v] = wsigner[w] /\ wacct[v] = wacct[w]
  /\ bundles[wacct[1]] # Null
  /\ <<wsigner[1], wacct[1]>> \notin tokenRefs
  /\ wacct[1] \notin Range(index[wsigner[1]])

\* C27: no step of unlinkAccount(p, a) changes a credential bundle, the index
\* of another principal or a token key other than that of (p, a); the index
\* it writes for p holds every other account of the list it read
C27_UnlinkFrame ==
  [][\A w \in Callers :
       LET p == wsigner[w]  a == wacct[w] IN
       (wop[w] = "unlink" /\ wpc'[w] # wpc[w] /\ wpc[w] # "idle") =>
         /\ bundles' = bundles
         /\ platRT' = platRT
         /\ authRec' = authRec
         /\ \A q \in Principals \ {p} : index'[q] = index[q]
         /\ tokenRefs' \subseteq tokenRefs
         /\ tokenRefs \ tokenRefs' \subseteq {<<p, a>>}
         /\ (Leaves(w, "write") /\ ReadIsCurrent(w)) =>
              \A b \in Range(index[p]) \ {a} : b \in Range(index'[p])]_vars

\* principal 1 has unlinked an account that it and another principal had
\* linked: the other principal still has it, principal 1 still has its other
\* account, and the bundle is stored
C27_Witness ==
  \E v, w \in Callers :
    /\ wpc[v] = "done" /\ wop[v] = "link" /\ wsigner[v] # 1
    /\ wpc[w] = "done" /\ wop[w] = "unlink" /\ wsigner[w] = 1
    /\ wacct[v] = wacct[w]
    /\ bundles[wacct[w]] # Null
    /\ <<wsigner[v], wacct[v]>> \in tokenRefs
    /\ wacct[v] \in Range(index[wsigner[v]])
    /\ <<1, wacct[w]>> \notin tokenRefs
    /\ wacct[w] \notin Range(index[1])
    /\ \E b \in Accounts : b # wacct[w] /\ b \in Range(index[1]) /\ <<1, b>> \in tokenRefs

\* the first place of x in the list
Place(list, x) == CHOOSE n \in 1..Len(list) : list[n] = x /\ \A m \in 1..(n - 1) : list[m] # x

\* x and y, both in the two lists, are in the same order in them
SameOrder(old, new) ==
  \A x, y \in Range(old) \cap Range(new) :
    (Place(old, x) < Place(old, y)) <=> (Place(new, x) < Place(new, y))

C29_DelayAfterEveryNonFinal ==
  pc = "done" =>
    \A k \in 1..Len(targets) :
      Cardinality(Events("delay", k)) = IF k < Len(targets) THEN 1 ELSE 0

\* C30: every batch terminates, also when a call made for one of its targets
\* never responds: the batch goes on to its response, with one outcome for
\* every target
C30_EveryBatchTerminates ==
  <>(pc = "done" /\ Len(successResults) + Len(errorDetails) = Len(targets))

(***************************************************************************)
(* Claims on concurrent refreshes (SpecCred)                               *)
(***************************************************************************)
\* C31: once every credential request has completed, a bundle held in
\* storage carries the access token that the platform issued last
C31_StoredBundleIsLatest ==
  (\A c \in Callers : cpc[c] \in {"idle", "done"}) =>
    \A a \in Accounts : bundles[a] # Null => bundles[a].accessToken = issued

(***************************************************************************)
(* Claims on links and authorization over the endpoints (SpecAuth)         *)
(***************************************************************************)
\* C32: in every reachable state a principal that has a link, as a token
\* reference or as an entry of its connected-accounts list, is authorized
C32_LinkedImpliesAuthorized ==
  \A p \in Principals :
    ((\E a \in Accounts : <<p, a>> \in tokenRefs)
       \/ listConnectedAccounts(index, p) # <<>>)
      => isNearAccountAuthorized(authRec, p)

(***************************************************************************)
(* Claims on the two records of a link (SpecLink)                          *)
(***************************************************************************)
\* C33: when no link or unlink call is under way, hasAccess(p, a) is true
\* exactly for the accounts a of listConnectedAccounts(p)
C33_AccessAgreesWithList ==
  (\A w \in Callers : wpc[w] \in {"idle", "done"}) =>
    \A p \in Principals, a \in Accounts :
      hasAccess(tokenRefs, p, a, FALSE)
        <=> a \in Range(listConnectedAccounts(index, p))

(***************************************************************************)
(* Claims on links and deleted bundles (SpecCred)                          *)
(***************************************************************************)
\* C34: no link refers to a deleted bundle: for an account without a stored
\* bundle no principal has access and no principal lists it
C34_NoLinkToDeletedBundle ==
  \A a \in Accounts :
    bundles[a] = Null =>
      \A p \in Principals :
        /\ ~hasAccess(tokenRefs, p, a, FALSE)
        /\ a \notin Range(listConnectedAccounts(index, p))

\* C35: a step in which the platform issues new tokens, that is a successful
\* request to the refresh endpoint, gives no principal a link it did not have
C35_RefreshGrantsNoLink ==
  [][issued' # issued =>
       /\ tokenRefs' \subseteq tokenRefs
       /\ \A p \in Principals :
            Range(listConnectedAccounts(index', p))
              \subseteq Range(listConnectedAccounts(index, p))]_vars

\* a request to the revoke endpoint is served in this step (its signer and
\* account are in revoked')
RevokeServed == calls' = calls + 1 /\ revoked' # Null

\* C36: a revoke request deletes the bundle of the account only when the
\* caller holds a link to the account; the request of a caller without the
\* link changes no bundle, no token reference and no list
C36_RevokeOnlyByLinked ==
  [][RevokeServed =>
       LET p == revoked'.signer  a == revoked'.acct IN
       <<p, a>> \notin tokenRefs =>
         /\ bundles' = bundles
         /\ tokenRefs' = tokenRefs
         /\ index' = index]_vars

\* C40: a revoke request by a principal for an account it is linked to ends
\* with that link removed: afterwards the principal has no access to the
\* account and the account is not in its list
C40_RevokeRemovesOwnLink ==
  [][RevokeServed =>
       LET p == revoked'.signer  a == revoked'.acct IN
       hasAccess(tokenRefs, p, a, FALSE) =>
         /\ ~hasAccess(tokenRefs', p, a, FALSE)
         /\ a \notin Range(listConnectedAccounts(index', p))]_vars

(***************************************************************************)
(* Claims on what the callback did (SpecBatch)                             *)
(***************************************************************************)
\* C37: every target whose platform action was performed is reported in
\* successResults and has no error outcome
C37_PerformedIsReported ==
  \A k \in Settled :
    Events("performed", k) # {} =>
      /\ Count(successResults, k) = 1
      /\ Count(errorDetails, k) = 0

(***************************************************************************)
(* Claims on the OAuth callback (SpecCallback)                             *)
(***************************************************************************)
\* a link of principal p to account a is written by this step
LinkWritten(p, a) ==
  \/ <<p, a>> \in tokenRefs' /\ <<p, a>> \notin tokenRefs
  \/ a \in Range(index'[p]) /\ a \notin Range(index[p])

SaveFailures == {"save failed", "Failed to link account to NEAR wallet"}

\* C38: a link is written only when the bundle of the account has been saved
\* before, and it is still stored after the step; a callback that ends because
\* saving failed writes no token reference and no index entry
C38_LinkOnlyAfterSave ==
  [][/\ \A p \in Principals, a \in Accounts :
          LinkWritten(p, a) => bundles[a] # Null /\ bundles'[a] # Null
     /\ \A w \in Callers :
          (wpc[w] # "done" /\ wpc'[w] = "done" /\ wres'[w] \in SaveFailures)
            => tokenRefs' = tokenRefs /\ index' = index]_vars

\* one callback has linked its account and returned, another has ended at a
\* failed save, and the account of the failed one is linked to nobody
C38_Witness ==
  \E v, w \in Callers :
    /\ wpc[v] = "done" /\ wres[v] = "success"
    /\ <<wsigner[v], wacct[v]>> \in tokenRefs
    /\ bundles[wacct[v]] # Null
    /\ wpc[w] = "done" /\ wres[w] \in SaveFailures
    /\ wacct[w] # wacct[v]
    /\ \A p \in Principals :
         <<p, wacct[w]>> \notin tokenRefs /\ wacct[w] \notin Range(index[p])

\* callback x has saved its tokens and written its link
CallbackLinked(x) ==
  /\ wop[x] = "callback"
  /\ \/ wpc[x] = "delete"
     \/ wpc[x] = "done" /\ wres[x] = "success"

\* C39: of two callbacks that carry the same state at most one saves a bundle
\* and writes a link
C39_StateUsedOnce ==
  \A v, w \in Callers :
    (v # w /\ wsigner[v] = wsigner[w]) => ~(CallbackLinked(v) /\ CallbackLinked(w))

====
